---- MODULE Spec2Model ----
(***************************************************************************)
(* Workload analyzer of gerakolen/lct: scripts/sql_static.py,              *)
(* build_context_pack and the helpers it calls.                            *)
(*                                                                         *)
(* SQL text is represented by what sqlglot.parse_one makes of it: either a *)
(* syntax tree (records tagged by k, the sqlglot node class, whose fields  *)
(* are the node's args in sqlglot's arg order) or a parse failure carrying *)
(* the token list of the text, which is all the regex fallback reads.      *)
(*                                                                         *)
(* A dotted name ("cat.sch.t1") is the sequence of its dot-separated       *)
(* segments (<<"cat","sch","t1">>); a bare name is a sequence of length 1. *)
(* An absent (None / empty) string is "".                                  *)
(***************************************************************************)
EXTENDS Integers, Sequences, FiniteSets, TLC

\* ------------------------------------------------------------- bounds
\* longest DDL list drawn by Init
MaxDDL == 2
\* longest query list drawn by Init
MaxQ == 2
\* largest run weight drawn by Init
MaxW == 2
\* longest DDL list drawn together with the longest query lists
FewDDL == 1
\* longest query list drawn together with the longest DDL lists
FewQ == 1

\* ------------------------------------------------------------- generic helpers
Range(s) == {s[i] : i \in 1..Len(s)}

RECURSIVE Flatten(_)
Flatten(ss) == IF ss = <<>> THEN <<>> ELSE Head(ss) \o Flatten(Tail(ss))

\* list(dict.fromkeys(xs)): first occurrences, in order
RECURSIVE Dedup(_)
Dedup(xs) ==
    IF xs = <<>> THEN <<>>
    ELSE LET r == Dedup(SubSeq(xs, 1, Len(xs) - 1))
             x == xs[Len(xs)]
         IN  IF x \in Range(r) THEN r ELSE Append(r, x)

\* A Python dict (Counter, defaultdict): its keys in insertion order, and
\* the value of each key.
EmptyDict == [keys |-> <<>>, val |-> <<>>]

Has(d, key) == key \in DOMAIN d.val

\* d[key] = v
Put(d, key, v) ==
    IF Has(d, key) THEN [d EXCEPT !.val[key] = v]
    ELSE [keys |-> Append(d.keys, key), val |-> d.val @@ (key :> v)]

\* Counter / defaultdict(int): d[key] += w
Bump(d, key, w) == Put(d, key, (IF Has(d, key) THEN d.val[key] ELSE 0) + w)

\* d[k] += w for every k of the list ks, in order
RECURSIVE BumpAll(_, _, _)
BumpAll(d, ks, w) ==
    IF ks = <<>> THEN d ELSE BumpAll(Bump(d, Head(ks), w), Tail(ks), w)

\* the dicts `for k in S: d[k] += w` can leave, S a set of str: the order
\* of a set's iteration shows only in the order its new keys are inserted
RECURSIVE BumpKnown(_, _, _)
BumpKnown(d, S, w) ==
    IF S = {} THEN d
    ELSE LET key == CHOOSE x \in S : TRUE
         IN  BumpKnown([d EXCEPT !.val[key] = @ + w], S \ {key}, w)

\* d.get(key, [])
GetOr(d, key) == IF Has(d, key) THEN d.val[key] ELSE <<>>

\* d.get(key, 0), for reading a counter
Count(d, key) == IF Has(d, key) THEN d.val[key] ELSE 0

\* the orders in which a set of str can be iterated (str hashes are
\* randomized per process)
Orders(S) == {o \in [1..Cardinality(S) -> S] : Range(o) = S}

BumpSet(d, S, w) ==
    LET known == {x \in S : x \in DOMAIN d.val}
        base == BumpKnown(d, known, w)
    IN  {BumpAll(base, o, w) : o \in Orders(S \ known)}

\* all sequences over S of length 0..n
SeqsUpTo(S, n) == UNION {[1..m -> S] : m \in 0..n}

\* ------------------------------------------------------------- identifiers
\* The identifiers of the corpus that are made of [A-Za-z0-9_] only, in
\* Python's string order (code points): sorted() on table names compares
\* them through this order.  The corpus has one more identifier, the quoted
\* "my-sch", which PHYS_RX does not accept as a segment.
IdentOrder ==
    << "ID", "RNK", "a", "b", "cat", "date_trunc", "id", "orphan",
       "pid", "rnk", "s", "sch", "t1", "t1_id", "t2", "t2_id", "t3", "t4", "t5",
       "v", "v1", "x", "y", "z" >>

Idents == Range(IdentOrder)

Rank(s) == CHOOSE i \in 1..Len(IdentOrder) : IdentOrder[i] = s

\* str.lower() / str.upper() on the identifiers of the corpus
Lower(s) == CASE s = "ID" -> "id" [] s = "RNK" -> "rnk" [] OTHER -> s
Upper(s) == CASE s = "id" -> "ID" [] s = "rnk" -> "RNK" [] s = "from" -> "FROM" [] OTHER -> s

\* a < b for two dotted names of identifier segments, as Python compares the
\* joined strings: '.' sorts before every identifier character, so the
\* comparison is segment by segment, a proper prefix first.
RECURSIVE NameLess(_, _)
NameLess(a, b) ==
    IF a = <<>> THEN b /= <<>>
    ELSE IF b = <<>> THEN FALSE
    ELSE IF Head(a) = Head(b) THEN NameLess(Tail(a), Tail(b))
    ELSE Rank(Head(a)) < Rank(Head(b))

\* the pair left as written
Sorted2_AsWritten(a, b) == <<a, b>>

\* sorted((a, b))
Sorted2(a, b) == IF NameLess(b, a) THEN <<b, a>> ELSE <<a, b>>

\* PHYS_RX / _is_phys: 2 or 3 dot-separated segments of [A-Za-z0-9_]+
_is_phys(name) ==
    /\ Len(name) \in {2, 3}
    /\ \A i \in 1..Len(name) : name[i] \in Idents

\* [p for p in parts if p]
NonEmpty(parts) == SelectSeq(parts, LAMBDA p : p /= "")

\* TableRef.fqtn
fqtn(tr) == NonEmpty(<<tr.catalog, tr.schema, tr.table>>)

\* _split_qualified
_split_qualified(parts) ==
    IF parts = <<>> THEN <<"", "", "">>
    ELSE IF Len(parts) = 3 THEN <<parts[1], parts[2], parts[3]>>
    ELSE IF Len(parts) = 2 THEN <<"", parts[1], parts[2]>>
    ELSE <<"", "", parts[1]>>

\* ------------------------------------------------------------- syntax trees
Tbl(c, d, n, a) == [k |-> "Table", catalog |-> c, db |-> d, name |-> n, alias |-> a]
Col(t, n) == [k |-> "Column", table |-> t, name |-> n]
Lit == [k |-> "Literal"]
Star == [k |-> "Star"]
Eq(l, r) == [k |-> "EQ", this |-> l, expression |-> r]
AndE(l, r) == [k |-> "And", this |-> l, expression |-> r]
InE(c, q) == [k |-> "In", this |-> c, query |-> q]
Subq(sel, a) == [k |-> "Subquery", this |-> sel, alias |-> a]
FromE(src) == [k |-> "From", this |-> src]
JoinE(src, on) == [k |-> "Join", this |-> src, on |-> on]
WhereE(e) == [k |-> "Where", this |-> e]
GroupE(es) == [k |-> "Group", expressions |-> es]
Func(n, args) == [k |-> "Anonymous", name |-> n, expressions |-> args]
WindowE(f) == [k |-> "Window", this |-> f]
CteE(n, sel) == [k |-> "CTE", this |-> sel, alias |-> n]
WithE(ctes) == [k |-> "With", expressions |-> ctes]
SelectE(proj, from, joins, where, group, with) ==
    [k |-> "Select", expressions |-> proj, from |-> from, joins |-> joins,
     where |-> where, group |-> group, with |-> with]
ColumnDef == [k |-> "ColumnDef"]
SchemaE(t) == [k |-> "Schema", this |-> t, expressions |-> <<ColumnDef>>]
CreateE(kind, this, expr) ==
    [k |-> "Create", kind |-> kind, this |-> this, expression |-> expr]
DropE(t) == [k |-> "Drop", this |-> t]

\* Expression.iter_expressions: the child nodes, in arg order
Children(n) ==
    CASE n.k = "Select" ->
            n.expressions \o n.from \o n.joins \o n.where \o n.group \o n.with
      [] n.k \in {"From", "Where", "Subquery", "CTE", "Window", "Drop"} -> <<n.this>>
      [] n.k = "Join" -> <<n.this>> \o n.on
      [] n.k \in {"EQ", "And"} -> <<n.this, n.expression>>
      [] n.k = "In" -> <<n.this, n.query>>
      [] n.k \in {"Group", "With", "Anonymous"} -> n.expressions
      [] n.k = "Schema" -> <<n.this>> \o n.expressions
      [] n.k = "Create" -> <<n.this>> \o n.expression
      [] OTHER -> <<>>

\* Expression.bfs: the nodes under the queued roots, breadth first
RECURSIVE Bfs(_)
Bfs(queue) ==
    IF queue = <<>> THEN <<>>
    ELSE <<Head(queue)>> \o Bfs(Tail(queue) \o Children(Head(queue)))

\* Expression.find_all(*kinds)
find_all(n, kinds) == SelectSeq(Bfs(<<n>>), LAMBDA x : x.k \in kinds)

\* Expression.find(kind): << first match >>, or << >> for None
find(n, kinds) ==
    LET all == find_all(n, kinds) IN IF all = <<>> THEN <<>> ELSE <<all[1]>>

\* ------------------------------------------------------------- the corpus
\* An SQL text is a string.  What sqlglot makes of it is given per text:
\* its syntax tree (Tree) when it parses, and its words (Words: keywords as
\* [w], dotted names as [n]), which is all the regex fallback reads.
Kw(w) == [w |-> w, n |-> <<>>]
Nm(n) == [w |-> "", n |-> n]

NoFrom(proj) == SelectE(proj, <<>>, <<>>, <<>>, <<>>, <<>>)
Plain(proj, src) == SelectE(proj, <<FromE(src)>>, <<>>, <<>>, <<>>, <<>>)
Joined(proj, src, joins) == SelectE(proj, <<FromE(src)>>, joins, <<>>, <<>>, <<>>)

T1 == <<"cat", "sch", "t1">>
T2 == <<"cat", "sch", "t2">>
T3 == <<"cat", "sch", "t3">>
Orphan == <<"cat", "sch", "orphan">>

DdlT1 == "CREATE TABLE cat.sch.t1 (id INT)"
DdlT2TwoPart == "CREATE TABLE sch.t2 (id INT)"
DdlT3Bare == "CREATE TABLE t3 (id INT)"
DdlCtas == "CREATE TABLE cat.sch.t2 AS SELECT 1"
DdlView == "CREATE VIEW cat.sch.v1 AS SELECT 1"
DdlDrop == "DROP TABLE cat.sch.t1"
DdlBad == "CREATE TABLE ("

DdlCorpus == {DdlT1, DdlT2TwoPart, DdlT3Bare, DdlCtas, DdlView, DdlDrop, DdlBad}

\* ------------------------------------------------------------- resolver
\* _alias_name
_alias_name(expr) == expr.alias

\* _make_tabref_from_expr: << TableRef >>, or << >> for None
_make_tabref_from_expr(expr, default_catalog, default_schema) ==
    IF expr.k /= "Table" THEN <<>>
    ELSE LET t == expr.name
             s == IF expr.db /= "" THEN expr.db ELSE default_schema
             c == IF expr.catalog /= "" THEN expr.catalog ELSE default_catalog
         IN  IF t /= "" /\ s /= "" THEN <<[catalog |-> c, schema |-> s, table |-> t]>>
             ELSE <<>>

\* _bases_of_any and _list_base_tables_from_select
RECURSIVE _bases_of_any(_, _, _), _list_base_tables_from_select(_, _, _), BasesOfEach(_, _, _)
BasesOfEach(nodes, dc, ds) ==
    IF nodes = <<>> THEN <<>>
    ELSE _bases_of_any(Head(nodes), dc, ds) \o BasesOfEach(Tail(nodes), dc, ds)

_bases_of_any(expr, dc, ds) ==
    CASE expr.k = "Table" ->
            LET tr == _make_tabref_from_expr(expr, dc, ds)
            IN  IF tr /= <<>> THEN <<fqtn(tr[1])>>
                ELSE IF expr.name /= "" THEN << <<expr.name>> >> ELSE <<>>
      [] expr.k = "Subquery" ->
            IF expr.this.k = "Select"
            THEN _list_base_tables_from_select(expr.this, dc, ds) ELSE <<>>
      [] expr.k = "Select" -> _list_base_tables_from_select(expr, dc, ds)
      [] expr.k = "Join" -> _bases_of_any(expr.this, dc, ds) \o BasesOfEach(expr.on, dc, ds)
      [] OTHER -> BasesOfEach(Children(expr), dc, ds)

_list_base_tables_from_select(sel, dc, ds) ==
    LET fromSrcs == IF sel.from = <<>> THEN <<>>
                    ELSE find_all(sel.from[1], {"Table", "Subquery", "Select"})
    IN  BasesOfEach(fromSrcs, dc, ds)
        \o BasesOfEach(sel.joins, dc, ds)
        \o BasesOfEach(sel.where, dc, ds)

\* _resolve_alias_maps, step 1, one CTE: cte.find(Identifier) is the CTE's
\* name (the alias identifier is the first Identifier below the CTE, breadth
\* first); the defining block is the first Subquery below the CTE, or else
\* its first Select.
CteStep(cte_map, cte, dc, ds) ==
    LET sub == find(cte, {"Subquery"})
        subq == IF sub /= <<>> THEN sub ELSE find(cte, {"Select"})
        sel == IF subq = <<>> THEN <<>>
               ELSE IF subq[1].k = "Subquery" THEN <<subq[1].this>> ELSE subq
    IN  IF cte.alias = "" \/ sel = <<>> \/ sel[1].k /= "Select" THEN cte_map
        ELSE LET bases == Dedup(_list_base_tables_from_select(sel[1], dc, ds))
             IN  IF bases /= <<>> THEN Put(cte_map, cte.alias, bases) ELSE cte_map

\* step 2, one Table node
AliasStep(alias_map, cte_map, tbl, dc, ds) ==
    LET tr == _make_tabref_from_expr(tbl, dc, ds)
        a == _alias_name(tbl)
    IN  IF tr /= <<>> /\ a /= "" THEN Put(alias_map, a, <<fqtn(tr[1])>>)
        ELSE IF tbl.name /= "" /\ Has(cte_map, tbl.name)
             THEN Put(alias_map, IF a /= "" THEN a ELSE tbl.name, cte_map.val[tbl.name])
             ELSE alias_map

\* step 3, one Subquery node
SubqueryStep(alias_map, sub, dc, ds) ==
    IF _alias_name(sub) = "" \/ sub.this.k /= "Select" THEN alias_map
    ELSE LET bases == Dedup(_list_base_tables_from_select(sub.this, dc, ds))
         IN  IF bases /= <<>> THEN Put(alias_map, _alias_name(sub), bases) ELSE alias_map

RECURSIVE CteLoop(_, _, _, _), AliasLoop(_, _, _, _, _), SubqueryLoop(_, _, _, _)
CteLoop(m, ctes, dc, ds) ==
    IF ctes = <<>> THEN m ELSE CteLoop(CteStep(m, Head(ctes), dc, ds), Tail(ctes), dc, ds)
AliasLoop(m, cte_map, tbls, dc, ds) ==
    IF tbls = <<>> THEN m
    ELSE AliasLoop(AliasStep(m, cte_map, Head(tbls), dc, ds), cte_map, Tail(tbls), dc, ds)
SubqueryLoop(m, subs, dc, ds) ==
    IF subs = <<>> THEN m
    ELSE SubqueryLoop(SubqueryStep(m, Head(subs), dc, ds), Tail(subs), dc, ds)

\* _resolve_alias_maps: (cte_map, alias_map)
_resolve_alias_maps(tree, dc, ds) ==
    LET cte_map == CteLoop(EmptyDict, find_all(tree, {"CTE"}), dc, ds)
        byTable == AliasLoop(EmptyDict, cte_map, find_all(tree, {"Table"}), dc, ds)
        alias_map == SubqueryLoop(byTable, find_all(tree, {"Subquery"}), dc, ds)
    IN  [cte |-> cte_map, alias |-> alias_map]

\* `b in m` for a base name b and a dict m keyed by single identifiers
InMap(b, m) == Len(b) = 1 /\ Has(m, b[1])

\* _expand_to_physical, one base name
ExpandOne(b, alias_map, cte_map, short2fqtn) ==
    IF b = <<>> THEN <<>>
    ELSE IF InMap(b, alias_map) THEN SelectSeq(alias_map.val[b[1]], _is_phys)
    ELSE IF InMap(b, cte_map) THEN SelectSeq(cte_map.val[b[1]], _is_phys)
    ELSE IF InMap(b, short2fqtn) THEN <<short2fqtn.val[b[1]]>>
    ELSE IF _is_phys(b) THEN <<b>>
    ELSE <<>>

\* _expand_to_physical
_expand_to_physical(bases, alias_map, cte_map, short2fqtn) ==
    Dedup(Flatten([i \in 1..Len(bases) |->
                      ExpandOne(bases[i], alias_map, cte_map, short2fqtn)]))

\* {k: _expand_to_physical(v, alias_map_raw, cte_map_raw, short2fqtn) for k, v in m.items()}
PhysMap(m, alias_map_raw, cte_map_raw, short2fqtn) ==
    [keys |-> m.keys,
     val |-> [key \in DOMAIN m.val |->
                 _expand_to_physical(m.val[key], alias_map_raw, cte_map_raw, short2fqtn)]]

\* {**cte_map_phys, **alias_map_phys}
derived_name_map(cte_map_phys, alias_map_phys) ==
    [key \in DOMAIN cte_map_phys.val \cup DOMAIN alias_map_phys.val |->
        IF Has(alias_map_phys, key) THEN alias_map_phys.val[key] ELSE cte_map_phys.val[key]]

\* ------------------------------------------------------------- usage aggregator
\* build_context_pack, "Count scans": the names one Table node credits
ScanTargets(tbl, dc, ds, derived, short2fqtn) ==
    LET tr == _make_tabref_from_expr(tbl, dc, ds)
    IN  IF tr /= <<>> THEN <<fqtn(tr[1])>>
        ELSE IF tbl.name = "" THEN <<>>
        ELSE LET bases == IF tbl.name \in DOMAIN derived THEN derived[tbl.name] ELSE <<>>
             IN  IF bases /= <<>> THEN SelectSeq(bases, _is_phys)
                 ELSE IF Has(short2fqtn, tbl.name) THEN <<short2fqtn.val[tbl.name]>>
                 ELSE <<>>

\* the names credited by the Table nodes of a tree, in find_all order
ScanCredits(tree, dc, ds, derived, short2fqtn) ==
    LET tbls == find_all(tree, {"Table"})
    IN  Flatten([i \in 1..Len(tbls) |-> ScanTargets(tbls[i], dc, ds, derived, short2fqtn)])

\* the fallback with the keyword matched in upper case only
FromMatches_UpperOnly(tokens) ==
    LET hit(i) == /\ i < Len(tokens)
                  /\ tokens[i].w = "FROM"
                  /\ Len(tokens[i + 1].n) >= 2
    IN  Flatten([i \in 1..Len(tokens) |->
                    IF hit(i) THEN <<tokens[i + 1].n>> ELSE <<>>])

\* the parse-failure fallback: re.findall(r"\bFROM\s+(([A-Za-z0-9_]+\.)?
\* [A-Za-z0-9_]+\.[A-Za-z0-9_]+)", text, re.I) on the text's tokens.  A name
\* of 2 segments matches whole; of 3 or more, its first 3 segments match.
FromMatches(tokens) ==
    LET hit(i) == /\ i < Len(tokens)
                  /\ Upper(tokens[i].w) = "FROM"
                  /\ Len(tokens[i + 1].n) >= 2
                  /\ \A j \in 1..Len(tokens[i + 1].n) : tokens[i + 1].n[j] \in Idents
        cap(n) == IF Len(n) >= 3 THEN SubSeq(n, 1, 3) ELSE n
    IN  Flatten([i \in 1..Len(tokens) |->
                    IF hit(i) THEN <<cap(tokens[i + 1].n)>> ELSE <<>>])

\* the names credited by an unparsable query
FallbackCredits(tokens) == SelectSeq(FromMatches(tokens), _is_phys)

\* the nodes of a block whose nearest Select ancestor is the block
\* (_belongs_to_select): the walk does not descend into a nested Select
RECURSIVE BfsOwn(_)
BfsOwn(queue) ==
    IF queue = <<>> THEN <<>>
    ELSE <<Head(queue)>>
         \o BfsOwn(Tail(queue)
                   \o (IF Head(queue).k = "Select" THEN <<>> ELSE Children(Head(queue))))

\* [col for col in sel.find_all(E.Column) if _belongs_to_select(col, sel)]
OwnColumns(sel) == SelectSeq(BfsOwn(Children(sel)), LAMBDA n : n.k = "Column")

\* sel_alias_map_phys: the aliases of the Table nodes below the block's FROM
\* and JOINs that alias_map_phys resolves to a non-empty list
sel_alias_map_phys(sel, alias_map_phys) ==
    LET tbls == (IF sel.from = <<>> THEN <<>> ELSE find_all(sel.from[1], {"Table"}))
                \o Flatten([j \in 1..Len(sel.joins) |-> find_all(sel.joins[j], {"Table"})])
        names == {_alias_name(tbls[i]) : i \in 1..Len(tbls)} \ {""}
    IN  [a \in {n \in names : GetOr(alias_map_phys, n) /= <<>>} |-> alias_map_phys.val[a]]

\* sel_bases_phys of a block
sel_bases_phys(sel, alias_map_phys, cte_map_phys, short2fqtn, dc, ds) ==
    _expand_to_physical(_list_base_tables_from_select(sel, dc, ds),
                        alias_map_phys, cte_map_phys, short2fqtn)

\* the tables a qualified column's qualifier names (column pass 1)
QualifiedBases(col, selAlias, short2fqtn) ==
    LET viaAlias == IF col.table \in DOMAIN selAlias THEN selAlias[col.table] ELSE <<>>
    IN  IF viaAlias /= <<>> THEN viaAlias
        ELSE IF Has(short2fqtn, col.table) THEN <<short2fqtn.val[col.table]>>
        ELSE <<>>

Unknown == <<"__unknown__">>

\* column attribution of one block: the column_usage_freq keys credited, in order
ColumnCredits(sel, alias_map_phys, cte_map_phys, short2fqtn, dc, ds) ==
    LET bases == sel_bases_phys(sel, alias_map_phys, cte_map_phys, short2fqtn, dc, ds)
        basesSet == Range(bases)
        selAlias == sel_alias_map_phys(sel, alias_map_phys)
        single == IF Cardinality(DOMAIN selAlias) = 1
                  THEN selAlias[CHOOSE a \in DOMAIN selAlias : TRUE] ELSE <<>>
        cols == SelectSeq(OwnColumns(sel), LAMBDA c : c.name /= "")
        qual == SelectSeq(cols, LAMBDA c : c.table /= "")
        unq == SelectSeq(cols, LAMBDA c : c.table = "")
        physOf(c) == SelectSeq(QualifiedBases(c, selAlias, short2fqtn), _is_phys)
        prefixed(name) ==
            UNION {Range(physOf(qual[i])) : i \in {j \in 1..Len(qual) : qual[j].name = name}}
        pass1 == Flatten([i \in 1..Len(qual) |->
                    [j \in 1..Len(physOf(qual[i])) |-> <<physOf(qual[i])[j], qual[i].name>>]])
        rule(c) ==
            IF Cardinality(basesSet) = 1
            THEN << <<CHOOSE b \in basesSet : TRUE, c.name>> >>
            ELSE IF Cardinality(prefixed(c.name)) = 1
            THEN << <<CHOOSE b \in prefixed(c.name) : TRUE, c.name>> >>
            ELSE IF single /= <<>>
            THEN [j \in 1..Len(single) |-> <<single[j], c.name>>]
            ELSE << <<Unknown, c.name>> >>
        pass2 == Flatten([i \in 1..Len(unq) |-> rule(unq[i])])
    IN  pass1 \o pass2

\* GROUP BY capture of one block: its groupby_patterns entry, if any.  An
\* expression's SQL text (e.sql) is represented by the expression.
GroupByEntries(sel, queryid, runquantity) ==
    LET gbs == find_all(sel, {"Group"})
        exprs == Flatten([i \in 1..Len(gbs) |-> gbs[i].expressions])
        colsOnly == SelectSeq(exprs, LAMBDA e : e.k = "Column" /\ e.name /= "")
    IN  IF exprs = <<>> THEN <<>>
        ELSE << [queryid |-> queryid, runquantity |-> runquantity,
                 columns_raw |-> exprs,
                 columns_only |-> [i \in 1..Len(colsOnly) |-> colsOnly[i].name]] >>

\* window functions of a query: the counter keys credited.  func.name is
\* the function node's name attribute.
WindowCredits(tree) ==
    LET wins == find_all(tree, {"Window"})
        names == [i \in 1..Len(wins) |-> Upper(wins[i].this.name)]
    IN  SelectSeq(names, LAMBDA n : n /= "")

\* ------------------------------------------------------------- join extractor
\* _walk_eq_pairs
_walk_eq_pairs(expr) ==
    LET eqs == find_all(expr, {"EQ"})
        both == SelectSeq(eqs, LAMBDA e : e.this.k = "Column" /\ e.expression.k = "Column")
    IN  [i \in 1..Len(both) |-> <<both[i].this, both[i].expression>>]

\* _col_phys_bases
_col_phys_bases(col, selAlias, selBases, short2fqtn) ==
    IF col.table /= ""
    THEN IF col.table \in DOMAIN selAlias THEN selAlias[col.table]
         ELSE IF Has(short2fqtn, col.table) THEN <<short2fqtn.val[col.table]>>
         ELSE <<>>
    ELSE IF Len(selBases) = 1 THEN selBases ELSE <<>>

\* the canonical tuple of one resolved pair of tables: tables sorted, each
\* column kept on its table's side
OrientPair(a, b, lname, rname) ==
    LET s == Sorted2(a, b)
    IN  IF s[1] = a THEN <<s[1], s[2], lname, rname>> ELSE <<s[1], s[2], rname, lname>>

\* whether a resolved pair of tables yields a tuple
PairKept(a, b) == _is_phys(a) /\ _is_phys(b) /\ a /= b

\* the tuples of one equality pair
PairTuples(pair, selAlias, selBases, short2fqtn) ==
    LET lb == _col_phys_bases(pair[1], selAlias, selBases, short2fqtn)
        rb == _col_phys_bases(pair[2], selAlias, selBases, short2fqtn)
        lname == Lower(pair[1].name)
        rname == Lower(pair[2].name)
    IN  IF lb = <<>> \/ rb = <<>> THEN <<>>
        ELSE Flatten([i \in 1..Len(lb) |-> Flatten([j \in 1..Len(rb) |->
                 IF PairKept(lb[i], rb[j])
                 THEN <<OrientPair(lb[i], rb[j], lname, rname)>> ELSE <<>>])])

\* _join_key_pairs_for_select
_join_key_pairs_for_select(sel, alias_map_phys, cte_map_phys, short2fqtn, dc, ds) ==
    LET selBases == sel_bases_phys(sel, alias_map_phys, cte_map_phys, short2fqtn, dc, ds)
        selAlias == sel_alias_map_phys(sel, alias_map_phys)
        onPairs == Flatten([j \in 1..Len(sel.joins) |->
                      Flatten([e \in 1..Len(sel.joins[j].on) |->
                                  _walk_eq_pairs(sel.joins[j].on[e])])])
        wherePairs == Flatten([e \in 1..Len(sel.where) |-> _walk_eq_pairs(sel.where[e])])
        pairs == onPairs \o wherePairs
    IN  Flatten([i \in 1..Len(pairs) |-> PairTuples(pairs[i], selAlias, selBases, short2fqtn)])

\* build_context_pack on the tuples: those kept, re-sorted, as edge and key
KeptTuples(key_pairs) ==
    SelectSeq(key_pairs, LAMBDA t : _is_phys(t[1]) /\ _is_phys(t[2]) /\ t[1] /= t[2])

EdgeOf(t) == Sorted2(t[1], t[2])
KeyOf(t) == <<Sorted2(t[1], t[2])[1], Sorted2(t[1], t[2])[2], t[3], t[4]>>

\* ------------------------------------------------------------- query corpus
SelectOne == "SELECT 1"
QScan == "SELECT id FROM cat.sch.t1"
QShortJoin == "SELECT a.id FROM t1 a JOIN t2 b ON a.id = b.t1_id"
QJoinReversed == "SELECT b.v FROM cat.sch.t2 b JOIN cat.sch.t1 a ON b.t1_id = a.ID"
QBroken == "SELEC FROM cat.sch.orphan from cat.sch.orphan FROM t2"
QCte == "WITH x AS (SELECT id FROM cat.sch.t1) SELECT * FROM x"
QChainAlias ==
    "WITH x AS (SELECT id FROM cat.sch.t1), y AS (SELECT id FROM x a) SELECT id FROM y b"
QChain3 ==
    "WITH x AS (SELECT id FROM cat.sch.t1), y AS (SELECT id FROM x), z AS (SELECT id FROM y) SELECT id FROM z"
QTwoAlias == "SELECT v FROM cat.sch.t1 a JOIN cat.sch.t2 b ON a.id = b.t1_id"
QOneAlias == "SELECT v FROM cat.sch.t1 a JOIN cat.sch.t2 ON a.id = t2.t1_id"
QSelfJoin == "SELECT a.id FROM cat.sch.t1 a JOIN cat.sch.t1 b ON a.pid = b.id"
QNested ==
    "SELECT id FROM cat.sch.t1 WHERE id IN (SELECT t2.id FROM cat.sch.t2 JOIN cat.sch.t3 ON t2.id = t3.t2_id)"
QGroupWindow ==
    "SELECT v, rnk() OVER () FROM cat.sch.t1 GROUP BY v, date_trunc(id)"
QQuoted == "SELECT v FROM \"my-sch\".t1"
QBare == "SELECT v FROM t1"
QGroupInCte == "WITH x AS (SELECT v FROM cat.sch.t1 GROUP BY v) SELECT v FROM x"
QSubAlias ==
    "SELECT s.id FROM (SELECT id FROM cat.sch.t1) s JOIN cat.sch.t2 b ON s.id = b.t1_id"

QTwoKeys ==
    "SELECT 1 FROM cat.sch.t1 a JOIN cat.sch.t2 b ON a.id = b.t1_id AND a.v = b.v"

QueryCorpus ==
    {QScan, QShortJoin, QJoinReversed, QBroken, QCte, QChainAlias, QChain3,
     QTwoAlias, QOneAlias, QSelfJoin, QNested, QGroupWindow, QQuoted, QBare,
     QGroupInCte, QSubAlias, QTwoKeys}

CteX == CteE("x", Plain(<<Col("", "id")>>, Tbl("cat", "sch", "t1", "")))

\* a workload of two-table joins over five tables, each text with the pair
\* of tables it joins
JoinTexts ==
    << "SELECT 1 FROM cat.sch.t4 JOIN cat.sch.t5 ON t4.id = t5.id",
       "SELECT 1 FROM cat.sch.t3 JOIN cat.sch.t4 ON t3.id = t4.id",
       "SELECT 1 FROM cat.sch.t2 JOIN cat.sch.t3 ON t2.id = t3.id",
       "SELECT 1 FROM cat.sch.t1 JOIN cat.sch.t2 ON t1.id = t2.id",
       "SELECT 1 FROM cat.sch.t1 JOIN cat.sch.t3 ON t1.id = t3.id",
       "SELECT 1 FROM cat.sch.t1 JOIN cat.sch.t4 ON t1.id = t4.id",
       "SELECT 1 FROM cat.sch.t2 JOIN cat.sch.t5 ON t2.id = t5.id" >>
JoinPairs ==
    << <<"t4", "t5">>, <<"t3", "t4">>, <<"t2", "t3">>, <<"t1", "t2">>,
       <<"t1", "t3">>, <<"t1", "t4">>, <<"t2", "t5">> >>
JoinTree(pair) ==
    Joined(<<Lit>>, Tbl("cat", "sch", pair[1], ""),
           <<JoinE(Tbl("cat", "sch", pair[2], ""),
                   <<Eq(Col(pair[1], "id"), Col(pair[2], "id"))>>)>>)

\* the syntax tree of a text that parses: << tree >>; << >> otherwise
Tree(text) ==
    CASE text = DdlT1 -> <<CreateE("TABLE", SchemaE(Tbl("cat", "sch", "t1", "")), <<>>)>>
      [] text = DdlT2TwoPart -> <<CreateE("TABLE", SchemaE(Tbl("", "sch", "t2", "")), <<>>)>>
      [] text = DdlT3Bare -> <<CreateE("TABLE", SchemaE(Tbl("", "", "t3", "")), <<>>)>>
      [] text = DdlCtas -> <<CreateE("TABLE", Tbl("cat", "sch", "t2", ""), <<NoFrom(<<Lit>>)>>)>>
      [] text = DdlView -> <<CreateE("VIEW", Tbl("cat", "sch", "v1", ""), <<NoFrom(<<Lit>>)>>)>>
      [] text = DdlDrop -> <<DropE(Tbl("cat", "sch", "t1", ""))>>
      [] text = SelectOne -> <<NoFrom(<<Lit>>)>>
      [] text = QScan -> <<Plain(<<Col("", "id")>>, Tbl("cat", "sch", "t1", ""))>>
      [] text = QShortJoin ->
            <<Joined(<<Col("a", "id")>>, Tbl("", "", "t1", "a"),
                     <<JoinE(Tbl("", "", "t2", "b"),
                             <<Eq(Col("a", "id"), Col("b", "t1_id"))>>)>>)>>
      [] text = QJoinReversed ->
            <<Joined(<<Col("b", "v")>>, Tbl("cat", "sch", "t2", "b"),
                     <<JoinE(Tbl("cat", "sch", "t1", "a"),
                             <<Eq(Col("b", "t1_id"), Col("a", "ID"))>>)>>)>>
      [] text = QCte ->
            <<SelectE(<<Star>>, <<FromE(Tbl("", "", "x", ""))>>, <<>>, <<>>, <<>>,
                      <<WithE(<<CteX>>)>>)>>
      [] text = QChainAlias ->
            <<SelectE(<<Col("", "id")>>, <<FromE(Tbl("", "", "y", "b"))>>, <<>>, <<>>, <<>>,
                      <<WithE(<<CteX,
                                CteE("y", Plain(<<Col("", "id")>>, Tbl("", "", "x", "a")))>>)>>)>>
      [] text = QChain3 ->
            <<SelectE(<<Col("", "id")>>, <<FromE(Tbl("", "", "z", ""))>>, <<>>, <<>>, <<>>,
                      <<WithE(<<CteX,
                                CteE("y", Plain(<<Col("", "id")>>, Tbl("", "", "x", ""))),
                                CteE("z", Plain(<<Col("", "id")>>, Tbl("", "", "y", "")))>>)>>)>>
      [] text = QTwoAlias ->
            <<Joined(<<Col("", "v")>>, Tbl("cat", "sch", "t1", "a"),
                     <<JoinE(Tbl("cat", "sch", "t2", "b"),
                             <<Eq(Col("a", "id"), Col("b", "t1_id"))>>)>>)>>
      [] text = QOneAlias ->
            <<Joined(<<Col("", "v")>>, Tbl("cat", "sch", "t1", "a"),
                     <<JoinE(Tbl("cat", "sch", "t2", ""),
                             <<Eq(Col("a", "id"), Col("t2", "t1_id"))>>)>>)>>
      [] text = QSelfJoin ->
            <<Joined(<<Col("a", "id")>>, Tbl("cat", "sch", "t1", "a"),
                     <<JoinE(Tbl("cat", "sch", "t1", "b"),
                             <<Eq(Col("a", "pid"), Col("b", "id"))>>)>>)>>
      [] text = QNested ->
            <<SelectE(<<Col("", "id")>>, <<FromE(Tbl("cat", "sch", "t1", ""))>>, <<>>,
                <<WhereE(InE(Col("", "id"),
                    Subq(Joined(<<Col("t2", "id")>>, Tbl("cat", "sch", "t2", ""),
                           <<JoinE(Tbl("cat", "sch", "t3", ""),
                                   <<Eq(Col("t2", "id"), Col("t3", "t2_id"))>>)>>), "")))>>,
                <<>>, <<>>)>>
      [] text = QGroupWindow ->
            <<SelectE(<<Col("", "v"), WindowE(Func("rnk", <<>>))>>,
                      <<FromE(Tbl("cat", "sch", "t1", ""))>>, <<>>, <<>>,
                      <<GroupE(<<Col("", "v"), Func("date_trunc", <<Col("", "id")>>)>>)>>,
                      <<>>)>>
      [] text = QQuoted -> <<Plain(<<Col("", "v")>>, Tbl("", "my-sch", "t1", ""))>>
      [] text = QBare -> <<Plain(<<Col("", "v")>>, Tbl("", "", "t1", ""))>>
      [] text = QGroupInCte ->
            <<SelectE(<<Col("", "v")>>, <<FromE(Tbl("", "", "x", ""))>>, <<>>, <<>>, <<>>,
                      <<WithE(<<CteE("x",
                            SelectE(<<Col("", "v")>>, <<FromE(Tbl("cat", "sch", "t1", ""))>>,
                                    <<>>, <<>>, <<GroupE(<<Col("", "v")>>)>>, <<>>))>>)>>)>>
      [] text = QSubAlias ->
            <<SelectE(<<Col("s", "id")>>,
                      <<FromE(Subq(Plain(<<Col("", "id")>>, Tbl("cat", "sch", "t1", "")), "s"))>>,
                      <<JoinE(Tbl("cat", "sch", "t2", "b"),
                              <<Eq(Col("s", "id"), Col("b", "t1_id"))>>)>>,
                      <<>>, <<>>, <<>>)>>
      [] text = QTwoKeys ->
            <<Joined(<<Lit>>, Tbl("cat", "sch", "t1", "a"),
                     <<JoinE(Tbl("cat", "sch", "t2", "b"),
                             <<AndE(Eq(Col("a", "id"), Col("b", "t1_id")),
                                    Eq(Col("a", "v"), Col("b", "v")))>>)>>)>>
      [] text \in Range(JoinTexts) ->
            <<JoinTree(JoinPairs[CHOOSE i \in 1..Len(JoinTexts) : JoinTexts[i] = text])>>
      [] OTHER -> <<>>

\* the words of a text that does not parse
Words(text) ==
    CASE text = QBroken ->
            <<Kw("SELEC"), Kw("FROM"), Nm(Orphan), Kw("from"), Nm(Orphan),
              Kw("FROM"), Nm(<<"t2">>)>>
      [] text = DdlBad -> <<Kw("CREATE"), Kw("TABLE"), Kw("(")>>
      [] OTHER -> <<>>

\* sqlglot.parse_one(text, read="trino"): << tree >>, or << >> when it raises
parse_one(text) == Tree(text)

\* ------------------------------------------------------------- raw input
\* A raw DDL record {statement: ...} and a raw query record: a JSON value
\* that is a dict or not (dict), the identifier under each accepted key
\* (queryid, queryId, id, qid), the text (query) and the weight under each
\* accepted key (runquantity, runQuantity, run_count).  An absent or empty
\* string is "", a weight is a raw JSON value: an int, None (also: key
\* absent), a word ("abc"), the decimal digits of v ("3"), or v + 0.5.
RawInt(n) == [t |-> "int", v |-> n]
RawNone == [t |-> "none", v |-> 0]
RawWord == [t |-> "str", v |-> 0]
RawDigits(n) == [t |-> "digits", v |-> n]
RawHalf(n) == [t |-> "half", v |-> n]

\* a text of white space only
Blank == " "

\* the raw query record with one identifier, one text and one weight
RawQuery(qid, text, w) ==
    [dict |-> TRUE, queryid |-> qid, queryId |-> "", id |-> "", qid |-> "",
     query |-> text, runquantity |-> w, runQuantity |-> RawNone, run_count |-> RawNone]

QueryIds == <<"q1", "q2", "q3", "q4", "q5", "q6", "q7", "q8", "q9", "q10", "q11", "q12">>

\* _to_ddl_list
_to_ddl_list(ddl_raw) ==
    LET kept == SelectSeq(ddl_raw, LAMBDA d : d.statement /= "")
    IN  [i \in 1..Len(kept) |-> [statement |-> kept[i].statement]]

\* Python truth of a raw weight: None and the int 0 are falsy
Truthy(rq) == IF rq.t = "int" THEN rq.v /= 0 ELSE rq.t /= "none"

\* `a or b or c or d` over strings
FirstNonEmpty(xs) == IF NonEmpty(xs) = <<>> THEN "" ELSE NonEmpty(xs)[1]

\* the run weight of a raw record: the first truthy of runquantity,
\* runQuantity, run_count, else 1; then int() of it, 1 when int() raises.
\* int() reads the digits of a numeric string and truncates a float.
IngestWeight(q) ==
    LET given == SelectSeq(<<q.runquantity, q.runQuantity, q.run_count>>, Truthy)
    IN  IF given = <<>> \/ given[1].t = "str" THEN 1 ELSE given[1].v

\* _to_query_stat_list
_to_query_stat_list(queries_raw) ==
    LET qidOf(q) == FirstNonEmpty(<<q.queryid, q.queryId, q.id, q.qid>>)
        kept == SelectSeq(queries_raw, LAMBDA q : q.dict /\ qidOf(q) /= "")
    IN  [i \in 1..Len(kept) |->
            [queryid |-> qidOf(kept[i]),
             query |-> IF kept[i].query \in {"", Blank} THEN SelectOne ELSE kept[i].query,
             runquantity |-> IngestWeight(kept[i])]]

\* ------------------------------------------------------------- DDL
\* str(create.this), as its dot-separated pieces: a Table renders as its
\* dotted name; a Schema renders as "<name> (<column definitions>)", so the
\* column list stays on the last piece.
ColumnListText == " (id INT)"

NameText(node) ==
    IF node.k = "Table" THEN NonEmpty(<<node.catalog, node.db, node.name>>)
    ELSE LET parts == NonEmpty(<<node.this.catalog, node.this.db, node.this.name>>)
         IN  [i \in 1..Len(parts) |->
                 IF i = Len(parts) THEN parts[i] \o ColumnListText ELSE parts[i]]

\* the first Create of a DDL statement: << create >>, or << >> when the
\* statement does not parse or holds no Create
FirstCreate(d) ==
    LET tree == parse_one(d.statement)
    IN  IF tree = <<>> THEN <<>> ELSE find(tree[1], {"Create"})

\* _extract_default_catalog_schema_from_ddl: the first DDL statement with a
\* Create decides.  `catalog, schema = str(create.this).split('.')[:2]`
\* raises ValueError unless the slice has two pieces.
_extract_default_catalog_schema_from_ddl(ddl_stmts) ==
    LET hits == SelectSeq(ddl_stmts, LAMBDA d : FirstCreate(d) /= <<>>)
    IN  IF hits = <<>> THEN [raised |-> "", catalog |-> "", schema |-> ""]
        ELSE LET pieces == NameText(FirstCreate(hits[1])[1].this)
                 two == SubSeq(pieces, 1, IF Len(pieces) < 2 THEN Len(pieces) ELSE 2)
             IN  IF Len(two) /= 2
                 THEN [raised |-> "ValueError", catalog |-> "", schema |-> ""]
                 ELSE [raised |-> "", catalog |-> two[1], schema |-> two[2]]

\* [p.name for p in ct.this.find_all(E.Identifier)]: a Table's identifiers
\* in its arg order (this, db, catalog)
TableIdentifiers(tbl) == NonEmpty(<<tbl.name, tbl.db, tbl.catalog>>)

\* the Creates of a DDL statement whose `this` is a Table, as (c, s, t)
CreatedNames(d) ==
    LET tree == parse_one(d.statement)
        creates == IF tree = <<>> THEN <<>> ELSE find_all(tree[1], {"Create"})
        onTable == SelectSeq(creates, LAMBDA ct : ct.this.k = "Table")
        cst == [i \in 1..Len(onTable) |-> _split_qualified(TableIdentifiers(onTable[i].this))]
    IN  SelectSeq(cst, LAMBDA x : x[3] /= "")

\* short2fqtn_counter[t][fq] += 1
Vote(counter, t, fq) ==
    Put(counter, t, Bump(IF Has(counter, t) THEN counter.val[t] ELSE EmptyDict, fq, 1))

RECURSIVE VoteAll(_, _)
VoteAll(counter, votes) ==
    IF votes = <<>> THEN counter
    ELSE VoteAll(Vote(counter, Head(votes)[1], Head(votes)[2]), Tail(votes))

\* the votes of the DDL list ("From DDL")
DdlVotes(ddl_stmts) ==
    Flatten([i \in 1..Len(ddl_stmts) |->
        LET cst == CreatedNames(ddl_stmts[i])
        IN  [j \in 1..Len(cst) |-> <<cst[j][3], NonEmpty(cst[j])>>]])

\* the votes of the query list ("From queries")
QueryVotes(qs, dc, ds) ==
    Flatten([i \in 1..Len(qs) |->
        LET tree == parse_one(qs[i].query)
            tbls == IF tree = <<>> THEN <<>> ELSE find_all(tree[1], {"Table"})
            trs == Flatten([j \in 1..Len(tbls) |-> _make_tabref_from_expr(tbls[j], dc, ds)])
        IN  [j \in 1..Len(trs) |-> <<trs[j].table, fqtn(trs[j])>>]])

\* cnt.most_common(1)[0][0]: the first key, in insertion order, of the
\* highest count
MostCommon(cnt) ==
    LET best == CHOOSE i \in 1..Len(cnt.keys) :
                    /\ \A j \in 1..Len(cnt.keys) : cnt.val[cnt.keys[j]] <= cnt.val[cnt.keys[i]]
                    /\ \A j \in 1..(i - 1) : cnt.val[cnt.keys[j]] < cnt.val[cnt.keys[i]]
    IN  cnt.keys[best]

\* short2fqtn from the counter
PickShortNames(counter) ==
    [keys |-> counter.keys,
     val |-> [t \in DOMAIN counter.val |-> MostCommon(counter.val[t])]]

\* ddl_tables ("Tables from DDL")
DdlTableList(ddl_stmts, dc, ds) ==
    Flatten([i \in 1..Len(ddl_stmts) |->
        LET cst == CreatedNames(ddl_stmts[i])
        IN  [j \in 1..Len(cst) |->
                [catalog |-> IF cst[j][1] /= "" THEN cst[j][1] ELSE dc,
                 schema |-> IF cst[j][2] /= "" THEN cst[j][2] ELSE ds,
                 table |-> cst[j][3]]]])

\* ------------------------------------------------------------- state
VARIABLES
    ddl,                    \* build_context_pack's argument ddl (raw records)
    queries,                \* build_context_pack's argument queries (raw records)
    pc,                     \* where build_context_pack stands
    raised,                 \* the exception that left build_context_pack, or ""
    ddl_list, q_list,       \* the normalised inputs
    default_catalog, default_schema,
    short2fqtn_counter, short2fqtn,
    ddl_tables,
    qi,                     \* number of queries the main loop has walked
    table_scan_freq, table_scan_query_freq, column_usage_freq,
    join_edge_weight, join_key_freq, groupby_patterns, window_functions,
    context,                \* << the returned pack >>, or << >>
    tasks,                  \* the tasks table: task id -> row
    queue,                  \* the process_task messages the broker holds
    http,                   \* the request being served, or the last response
    worker,                 \* the process_task execution under way, if any
    yandex                  \* the call_yandex invocation under way, if any

inputs == <<ddl, queries>>
normalised == <<ddl_list, q_list>>
defaults == <<default_catalog, default_schema>>
counters == <<table_scan_freq, table_scan_query_freq, column_usage_freq,
              join_edge_weight, join_key_freq, groupby_patterns, window_functions>>
analyzer == <<inputs, pc, raised, normalised, defaults, short2fqtn_counter, short2fqtn,
              ddl_tables, qi, counters, context>>
service == <<tasks, queue, http, worker>>
vars == <<analyzer, service, yandex>>

\* the service at rest: no task stored, no message, no request, no execution
NoRequest == [phase |-> "idle"]
NoExecution == [pc |-> "idle"]
NoCall == [pc |-> "idle"]
ServiceAtRest ==
    /\ tasks = <<>>
    /\ queue = <<>>
    /\ http = NoRequest
    /\ worker = NoExecution
    /\ yandex = NoCall

\* the raw inputs Init draws
RawDdls(texts) == {[statement |-> t] : t \in texts}
RawWeights == {RawInt(-1)} \cup {RawInt(n) : n \in 2..MaxW}
RawQueriesAt(i, texts) ==
    {RawQuery(QueryIds[i], t, w) : t \in texts, w \in RawWeights}
RawQueryLists(texts, n) ==
    UNION {{qs \in [1..m -> UNION {RawQueriesAt(i, texts) : i \in 1..m}] :
               \A i \in 1..m : qs[i] \in RawQueriesAt(i, texts)} : m \in 0..n}

\* raw weights of every JSON kind, and raw query records of every shape
AnyWeights ==
    {RawInt(n) : n \in -1..MaxW} \cup {RawNone, RawWord, RawDigits(MaxW), RawHalf(0)}
AnyRawQueries ==
    {[dict |-> d, queryid |-> a, queryId |-> "", id |-> "", qid |-> b,
      query |-> t, runquantity |-> w, runQuantity |-> w2, run_count |-> RawNone] :
        d \in BOOLEAN, a \in {"", QueryIds[1]}, b \in {"", QueryIds[2]},
        t \in {"", Blank, QScan}, w \in AnyWeights, w2 \in {RawNone, RawInt(MaxW)}}

\* Either a DDL list of up to MaxDDL statements with up to FewQ of the
\* plainest queries, or up to FewDDL times the three-part CREATE with up to
\* MaxQ queries of the whole corpus, or no DDL with up to FewQ raw query
\* records of any shape.
Init ==
    /\ \/ /\ ddl \in SeqsUpTo(RawDdls(DdlCorpus), MaxDDL)
          /\ queries \in RawQueryLists({QScan, QShortJoin, QBroken}, FewQ)
       \/ /\ ddl \in SeqsUpTo(RawDdls({DdlT1}), FewDDL)
          /\ queries \in RawQueryLists(QueryCorpus, MaxQ)
       \/ /\ ddl = <<>>
          /\ queries \in SeqsUpTo(AnyRawQueries, FewQ)
    /\ pc = "ingest"
    /\ raised = ""
    /\ ddl_list = <<>> /\ q_list = <<>>
    /\ default_catalog = "" /\ default_schema = ""
    /\ short2fqtn_counter = EmptyDict /\ short2fqtn = EmptyDict
    /\ ddl_tables = <<>>
    /\ qi = 0
    /\ table_scan_freq = EmptyDict /\ table_scan_query_freq = EmptyDict
    /\ column_usage_freq = EmptyDict
    /\ join_edge_weight = EmptyDict /\ join_key_freq = EmptyDict
    /\ groupby_patterns = <<>> /\ window_functions = EmptyDict
    /\ context = <<>>
    /\ ServiceAtRest

\* lines 563-564
Ingest ==
    /\ pc = "ingest"
    /\ ddl_list' = _to_ddl_list(ddl)
    /\ q_list' = _to_query_stat_list(queries)
    /\ pc' = "defaults"
    /\ UNCHANGED <<service, yandex, inputs, raised, defaults, short2fqtn_counter, short2fqtn,
                   ddl_tables, qi, counters, context>>

\* line 566
ExtractDefaults ==
    /\ pc = "defaults"
    /\ LET r == _extract_default_catalog_schema_from_ddl(ddl_list)
       IN  /\ raised' = r.raised
           /\ default_catalog' = r.catalog
           /\ default_schema' = r.schema
           /\ pc' = IF r.raised /= "" THEN "raised" ELSE "short"
    /\ UNCHANGED <<service, yandex, inputs, normalised, short2fqtn_counter, short2fqtn,
                   ddl_tables, qi, counters, context>>

\* lines 568-601
BuildShortNames ==
    /\ pc = "short"
    /\ short2fqtn_counter' =
          VoteAll(VoteAll(EmptyDict, DdlVotes(ddl_list)),
                  QueryVotes(q_list, default_catalog, default_schema))
    /\ short2fqtn' = PickShortNames(short2fqtn_counter')
    /\ pc' = "ddl_tables"
    /\ UNCHANGED <<service, yandex, inputs, raised, normalised, defaults, ddl_tables, qi, counters, context>>

\* lines 603-624
CollectDdlTables ==
    /\ pc = "ddl_tables"
    /\ ddl_tables' = DdlTableList(ddl_list, default_catalog, default_schema)
    /\ pc' = "walk"
    /\ UNCHANGED <<service, yandex, inputs, raised, normalised, defaults, short2fqtn_counter, short2fqtn,
                   qi, counters, context>>

\* one iteration of the main loop whose query does not parse (lines 638-654)
WalkUnparsable ==
    /\ pc = "walk"
    /\ qi < Len(q_list)
    /\ LET q == q_list[qi + 1]
           credits == FallbackCredits(Words(q.query))
       IN  /\ parse_one(q.query) = <<>>
           /\ table_scan_freq' = BumpAll(table_scan_freq, credits, q.runquantity)
           /\ table_scan_query_freq' \in
                 BumpSet(table_scan_query_freq, Range(credits), q.runquantity)
    /\ qi' = qi + 1
    /\ UNCHANGED <<service, yandex, inputs, pc, raised, normalised, defaults, short2fqtn_counter, short2fqtn,
                   ddl_tables, column_usage_freq, join_edge_weight, join_key_freq,
                   groupby_patterns, window_functions, context>>

\* one iteration of the main loop whose query parses (lines 638-639, 656-835)
WalkParsed ==
    /\ pc = "walk"
    /\ qi < Len(q_list)
    /\ parse_one(q_list[qi + 1].query) /= <<>>
    /\ \E q \in {q_list[qi + 1]}, dc \in {default_catalog}, ds \in {default_schema} :
       \E w \in {q.runquantity}, tree \in {parse_one(q.query)[1]} :
       \E raw \in {_resolve_alias_maps(tree, dc, ds)}, sels \in {find_all(tree, {"Select"})} :
       \E cte_map_phys \in {PhysMap(raw.cte, raw.alias, raw.cte, short2fqtn)},
          alias_map_phys \in {PhysMap(raw.alias, raw.alias, raw.cte, short2fqtn)} :
       \E credits \in {ScanCredits(tree, dc, ds,
                          derived_name_map(cte_map_phys, alias_map_phys), short2fqtn)},
          colKeys \in {Flatten([i \in 1..Len(sels) |->
                          ColumnCredits(sels[i], alias_map_phys, cte_map_phys,
                                        short2fqtn, dc, ds)])},
          groups \in {Flatten([i \in 1..Len(sels) |->
                          GroupByEntries(sels[i], q.queryid, w)])},
          tuples \in {Flatten([i \in 1..Len(sels) |->
                          KeptTuples(_join_key_pairs_for_select(
                              sels[i], alias_map_phys, cte_map_phys, short2fqtn, dc, ds))])} :
           /\ table_scan_freq' = BumpAll(table_scan_freq, credits, w)
           /\ table_scan_query_freq' \in BumpSet(table_scan_query_freq, Range(credits), w)
           /\ column_usage_freq' = BumpAll(column_usage_freq, colKeys, w)
           /\ groupby_patterns' = groupby_patterns \o groups
           /\ join_edge_weight' =
                 BumpAll(join_edge_weight, [i \in 1..Len(tuples) |-> EdgeOf(tuples[i])], w)
           /\ join_key_freq' =
                 BumpAll(join_key_freq, [i \in 1..Len(tuples) |-> KeyOf(tuples[i])], w)
           /\ window_functions' = BumpAll(window_functions, WindowCredits(tree), w)
    /\ qi' = qi + 1
    /\ UNCHANGED <<service, yandex, inputs, pc, raised, normalised, defaults, short2fqtn_counter, short2fqtn,
                   ddl_tables, context>>

\* ------------------------------------------------------------- assembly
\* the sort with equal weights in reverse order
RECURSIVE SortByRunquantity_TiesReversed(_)
SortByRunquantity_TiesReversed(xs) ==
    IF xs = <<>> THEN <<>>
    ELSE LET rest == SortByRunquantity_TiesReversed(SubSeq(xs, 1, Len(xs) - 1))
             x == xs[Len(xs)]
             ahead == SelectSeq(rest, LAMBDA y : y.runquantity > x.runquantity)
             behind == SelectSeq(rest, LAMBDA y : y.runquantity <= x.runquantity)
         IN  ahead \o <<x>> \o behind

\* sorted(xs, key=lambda x: x.runquantity, reverse=True): stable
RECURSIVE SortByRunquantity(_)
SortByRunquantity(xs) ==
    IF xs = <<>> THEN <<>>
    ELSE LET rest == SortByRunquantity(SubSeq(xs, 1, Len(xs) - 1))
             x == xs[Len(xs)]
             ahead == SelectSeq(rest, LAMBDA y : y.runquantity >= x.runquantity)
             behind == SelectSeq(rest, LAMBDA y : y.runquantity < x.runquantity)
         IN  ahead \o <<x>> \o behind

TopN == 10

FirstN(xs, n) == SubSeq(xs, 1, IF Len(xs) < n THEN Len(xs) ELSE n)

\* the sum over the queries that parse only
RECURSIVE SumRunquantity_ParsedOnly(_)
SumRunquantity_ParsedOnly(qs) ==
    IF qs = <<>> THEN 0
    ELSE (IF parse_one(Head(qs).query) = <<>> THEN 0 ELSE Head(qs).runquantity)
            + SumRunquantity_ParsedOnly(Tail(qs))

RECURSIVE SumRunquantity(_)
SumRunquantity(qs) ==
    IF qs = <<>> THEN 0 ELSE Head(qs).runquantity + SumRunquantity(Tail(qs))

\* "Normalize table_scan_freq to physical only" (lines 878-886)
RECURSIVE ScanFreqPhys(_, _, _, _)
ScanFreqPhys(acc, ks, scan, short) ==
    IF ks = <<>> THEN acc
    ELSE LET key == Head(ks)
             next == IF _is_phys(key) THEN Bump(acc, key, scan.val[key])
                     ELSE IF InMap(key, short) /\ _is_phys(short.val[key[1]])
                          THEN Bump(acc, short.val[key[1]], scan.val[key])
                          ELSE acc
         IN  ScanFreqPhys(next, Tail(ks), scan, short)

\* {k: v for k, v in d.items() if _is_phys(k)}
PhysOnly(d) ==
    LET ks == SelectSeq(d.keys, _is_phys)
    IN  [keys |-> ks, val |-> [key \in Range(ks) |-> d.val[key]]]

\* join_graph_edges with 1 in place of every weight
JoinGraphEdges_Unweighted(edges) ==
    LET ks == SelectSeq(edges.keys, LAMBDA e : _is_phys(e[1]) /\ _is_phys(e[2]))
    IN  [i \in 1..Len(ks) |-> <<ks[i][1], ks[i][2], 1>>]

\* join_graph_edges (lines 901-905)
JoinGraphEdges(edges) ==
    LET ks == SelectSeq(edges.keys, LAMBDA e : _is_phys(e[1]) /\ _is_phys(e[2]))
    IN  [i \in 1..Len(ks) |-> <<ks[i][1], ks[i][2], edges.val[ks[i]]>>]

\* sorted(join_edge_weight.items()): the keys are distinct pairs of names,
\* so the items come out in the order of their keys (line 846)
EdgeLess(e, f) == NameLess(e[1], f[1]) \/ (e[1] = f[1] /\ NameLess(e[2], f[2]))

RECURSIVE SortEdges(_)
SortEdges(es) ==
    IF es = <<>> THEN <<>>
    ELSE LET rest == SortEdges(SubSeq(es, 1, Len(es) - 1))
             x == es[Len(es)]
         IN  SelectSeq(rest, LAMBDA y : EdgeLess(y, x)) \o <<x>>
                \o SelectSeq(rest, LAMBDA y : ~EdgeLess(y, x))

\* sorted(hot_edges, key=lambda kv: kv[1], reverse=True): stable (line 851)
RECURSIVE SortByWeight(_, _)
SortByWeight(es, weight) ==
    IF es = <<>> THEN <<>>
    ELSE LET rest == SortByWeight(SubSeq(es, 1, Len(es) - 1), weight)
             x == es[Len(es)]
         IN  SelectSeq(rest, LAMBDA y : weight[y] >= weight[x]) \o <<x>>
                \o SelectSeq(rest, LAMBDA y : weight[y] < weight[x])

HotEdgeN == 5
CliqueN == 3
HotColumnN == 10

\* the edges of G (lines 839-844): the physical pairs of join_edge_weight
GraphEdges(edges) ==
    SelectSeq(edges.keys, LAMBDA e : e[1] /= e[2] /\ _is_phys(e[1]) /\ _is_phys(e[2]))

\* hot_edges with equal weights left in insertion order
hot_edges_InsertionOrder(edges) ==
    FirstN(SortByWeight(SelectSeq(edges.keys,
               LAMBDA e : _is_phys(e[1]) /\ _is_phys(e[2])), edges.val), HotEdgeN)

\* hot_edges (lines 846-851)
hot_edges(edges) ==
    FirstN(SortByWeight(SortEdges(SelectSeq(edges.keys,
               LAMBDA e : _is_phys(e[1]) /\ _is_phys(e[2]))), edges.val), HotEdgeN)

\* hot_nodes (lines 852-854)
hot_nodes(edges) == UNION {{e[1], e[2]} : e \in Range(hot_edges(edges))}

\* the maximal cliques of G.subgraph(hot_nodes), as sets of nodes (line 856)
MaximalCliques(edges) ==
    LET adjacent(a, b) == <<a, b>> \in Range(GraphEdges(edges))
                            \/ <<b, a>> \in Range(GraphEdges(edges))
        present == {n \in hot_nodes(edges) :
                        \E e \in Range(GraphEdges(edges)) : n \in {e[1], e[2]}}
        clique(S) == S /= {} /\ \A a \in S, b \in S : a = b \/ adjacent(a, b)
    IN  {S \in SUBSET present :
            clique(S) /\ \A n \in present \ S : ~clique(S \cup {n})}

\* sorted(cliques, key=len, reverse=True): stable (line 857)
RECURSIVE SortByLen(_)
SortByLen(cs) ==
    IF cs = <<>> THEN <<>>
    ELSE LET rest == SortByLen(SubSeq(cs, 1, Len(cs) - 1))
             x == cs[Len(cs)]
         IN  SelectSeq(rest, LAMBDA y : Len(y) >= Len(x)) \o <<x>>
                \o SelectSeq(rest, LAMBDA y : Len(y) < Len(x))

\* the lists nx.find_cliques can give (line 856): hot_nodes is a set of str
\* and find_cliques walks sets of nodes, so neither the order of the
\* cliques nor the order of the members inside a clique is fixed
RECURSIVE Arrangements(_)
Arrangements(cliques) ==
    IF cliques = <<>> THEN {<<>>}
    ELSE {<<members>> \o rest : members \in Orders(Head(cliques)),
                                rest \in Arrangements(Tail(cliques))}

FoundCliques(edges) == UNION {Arrangements(o) : o \in Orders(MaximalCliques(edges))}

\* hot_join_cliques (lines 856-857): the lists it can be
HotJoinCliques(edges) == {FirstN(SortByLen(cs), CliqueN) : cs \in FoundCliques(edges)}

\* cnt.most_common(10) of one table's column counter (line 870): the
\* columns by frequency, ties in insertion order
RECURSIVE MostCommonColumns(_, _, _)
MostCommonColumns(cols, t, usage) ==
    IF cols = <<>> THEN <<>>
    ELSE LET rest == MostCommonColumns(SubSeq(cols, 1, Len(cols) - 1), t, usage)
             x == cols[Len(cols)]
         IN  SelectSeq(rest, LAMBDA y : usage.val[<<t, y>>] >= usage.val[<<t, x>>]) \o <<x>>
                \o SelectSeq(rest, LAMBDA y : usage.val[<<t, y>>] < usage.val[<<t, x>>])

\* hot_columns_per_table (lines 859-870).  A column_usage_freq key
\* "<table>.<col>" is the pair <<table, col>>, which is what
\* key.rsplit(".", 1) gives back.
HotColumnsPerTable(usage) ==
    LET kept == SelectSeq(usage.keys, LAMBDA key : key[1] /= Unknown /\ _is_phys(key[1]))
        tables == Dedup([i \in 1..Len(kept) |-> kept[i][1]])
        colsOf(t) == LET own == SelectSeq(kept, LAMBDA key : key[1] = t)
                     IN  [i \in 1..Len(own) |-> own[i][2]]
    IN  [keys |-> tables,
         val |-> [t \in Range(tables) |->
                    FirstN(MostCommonColumns(colsOf(t), t, usage), HotColumnN)]]

\* the ContextPack of lines 872-917, given the list find_cliques returned
ContextPack(cliques) ==
    [default_catalog |-> default_catalog,
     default_schema |-> default_schema,
     ddl_tables |-> ddl_tables,
     queries_overview |-> [total_queries |-> Len(q_list),
                           total_runquantity |-> SumRunquantity(q_list)],
     join_graph_edges |-> JoinGraphEdges(join_edge_weight),
     join_key_freq |-> join_key_freq,
     table_scan_freq |-> ScanFreqPhys(EmptyDict, table_scan_freq.keys, table_scan_freq, short2fqtn),
     table_scan_query_freq |-> PhysOnly(table_scan_query_freq),
     column_usage_freq |-> column_usage_freq,
     groupby_patterns |-> groupby_patterns,
     window_functions |-> window_functions,
     top_queries_by_q |->
        LET top == FirstN(SortByRunquantity(q_list), TopN)
        IN  [i \in 1..Len(top) |->
                [queryid |-> top[i].queryid, runquantity |-> top[i].runquantity]],
     hot_join_cliques |-> cliques,
     hot_columns_per_table |-> HotColumnsPerTable(column_usage_freq)]

\* lines 837-917: the main loop is over, the pack is returned
Assemble ==
    /\ pc = "walk"
    /\ qi = Len(q_list)
    /\ \E cliques \in HotJoinCliques(join_edge_weight) : context' = <<ContextPack(cliques)>>
    /\ pc' = "done"
    /\ UNCHANGED <<service, yandex, inputs, raised, normalised, defaults, short2fqtn_counter, short2fqtn,
                   ddl_tables, qi, counters>>

Next ==
    \/ Ingest
    \/ ExtractDefaults
    \/ BuildShortNames
    \/ CollectDdlTables
    \/ WalkUnparsable
    \/ WalkParsed
    \/ Assemble

Spec == Init /\ [][Next]_vars

\* ------------------------------------------------------------- the task service
\* TaskStatus.  app/schema.py as it stands declares neither this enum nor
\* Task.error; the members are those routers/task.py, worker_task.py and
\* the tests use.
TaskStatus == {"PENDING", "RUNNING", "FAILED", "COMPLETE"}

MaxTasks == 2
MaxItems == 2

\* the values of uuid.uuid4(), as strings
Uuids == <<"uuid1", "uuid2", "uuid3">>
TaskIds == {Uuids[i] : i \in 1..MaxTasks}

\* a task_id query parameter that is not a UUID
NotAUuid == "not-a-uuid"

\* Task(id=task_id, status=TaskStatus.PENDING)
NewTask == [status |-> "PENDING", error |-> "", result |-> ""]

\* request.app.state.settings.auth
cfg == [username |-> "admin", password |-> "secret"]

\* the Authorization header of a request: none, or Basic username:password
NoHeader == [given |-> FALSE, username |-> "", password |-> ""]
Headers ==
    {NoHeader} \cup {[given |-> TRUE, username |-> u, password |-> p] :
                        u \in {"admin", "eve"}, p \in {"secret", "guess"}}

\* lets the request in when one credential matches
require_basic_auth_Either(credentials) ==
    credentials.given
        /\ (credentials.username = cfg.username \/ credentials.password = cfg.password)

\* HTTPBasic(auto_error=True) and require_basic_auth: TRUE when the request
\* is let in, FALSE when HTTP 401 is raised
require_basic_auth(credentials) ==
    credentials.given
        /\ credentials.username = cfg.username /\ credentials.password = cfg.password

\* NewTaskRequest bodies: the queries of a request, each a QueryItem
QueryItems(n) ==
    {qs \in [1..n -> [queryid : Range(QueryIds), runquantity : 1..MaxW]] :
        \A i \in 1..n : qs[i].queryid = QueryIds[i]}
Bodies == {[queries |-> qs] : qs \in UNION {QueryItems(n) : n \in 0..MaxItems}}

\* a body pydantic rejects: runquantity has ge=0
BadBody == [queries |-> <<[queryid |-> QueryIds[1], runquantity |-> -1]>>]

\* sort_queries_by_runquantity
sort_queries_by_runquantity(data) == [data EXCEPT !.queries = SortByRunquantity(@)]

\* create_mock_response()
create_mock_response == [ddl |-> "mock", migrations |-> "mock", queries |-> "mock"]

\* a response, and the request it answers
Answer(route, credentials, task_id, r) ==
    [phase |-> "answered", route |-> route, credentials |-> credentials, task_id |-> task_id,
     status_code |-> r.status_code, body |-> r.body]

Unauthorized == [status_code |-> 401, body |-> [detail |-> "Unauthorized"]]

\* validation_exception_handler
ValidationError == [status_code |-> 400, body |-> [detail |-> "validation"]]

\* answers 200 unless the task is FAILED
get_result_UnlessFailed(rows, task_id) ==
    IF task_id \notin DOMAIN rows
    THEN [status_code |-> 404, body |-> [detail |-> "Task not found"]]
    ELSE IF rows[task_id].status = "FAILED"
    THEN [status_code |-> 400,
          body |-> [detail |-> [status |-> "FAILED", error |-> rows[task_id].error]]]
    ELSE [status_code |-> 200, body |-> create_mock_response]

\* get_result, rows being what session.get reads
get_result(rows, task_id) ==
    IF task_id \notin DOMAIN rows
    THEN [status_code |-> 404, body |-> [detail |-> "Task not found"]]
    ELSE IF rows[task_id].status \in {"PENDING", "RUNNING"}
    THEN [status_code |-> 400, body |-> [detail |-> [status |-> rows[task_id].status]]]
    ELSE IF rows[task_id].status = "FAILED"
    THEN [status_code |-> 400,
          body |-> [detail |-> [status |-> "FAILED", error |-> rows[task_id].error]]]
    ELSE [status_code |-> 200, body |-> create_mock_response]

\* get_status
get_status(rows, task_id) ==
    IF task_id \notin DOMAIN rows
    THEN [status_code |-> 404, body |-> [detail |-> "Task not found"]]
    ELSE [status_code |-> 200, body |-> [status |-> rows[task_id].status]]

Routes == {"/new", "/status", "/getresult"}

\* a request the router's dependency require_basic_auth turns away
Refuse ==
    /\ http.phase /= "committed"
    /\ \E route \in Routes, credentials \in Headers, task_id \in TaskIds :
          /\ ~require_basic_auth(credentials)
          /\ http' = Answer(route, credentials, task_id, Unauthorized)
    /\ UNCHANGED <<analyzer, yandex, tasks, queue, worker>>

\* a request let in whose body or task_id does not validate
Invalid ==
    /\ http.phase /= "committed"
    /\ \E route \in Routes, credentials \in Headers :
          /\ require_basic_auth(credentials)
          /\ http' = Answer(route, credentials, NotAUuid, ValidationError)
    /\ UNCHANGED <<analyzer, yandex, tasks, queue, worker>>

\* start_task whose row is added to the session but not committed
StartTaskCommit_NotCommitted ==
    /\ http.phase /= "committed"
    /\ \E credentials \in Headers, request \in Bodies, task_id \in TaskIds \ DOMAIN tasks :
          /\ require_basic_auth(credentials)
          /\ http' = [phase |-> "committed", route |-> "/new", credentials |-> credentials,
                      task_id |-> task_id, request |-> request]
    /\ UNCHANGED <<analyzer, yandex, tasks, queue, worker>>

\* start_task up to the end of `with session.begin()`: the row is stored
\* and committed
StartTaskCommit ==
    /\ http.phase /= "committed"
    /\ \E credentials \in Headers, request \in Bodies, task_id \in TaskIds \ DOMAIN tasks :
          /\ require_basic_auth(credentials)
          /\ tasks' = tasks @@ (task_id :> NewTask)
          /\ http' = [phase |-> "committed", route |-> "/new", credentials |-> credentials,
                      task_id |-> task_id, request |-> request]
    /\ UNCHANGED <<analyzer, yandex, queue, worker>>

\* the process_task message of task_id
Message(task_id, payload, retries) ==
    [task_id |-> task_id, payload |-> payload, retries |-> retries, redelivered |-> 0]

\* start_task from process_task.delay on
StartTaskDelay ==
    /\ http.phase = "committed"
    /\ queue' = Append(queue, Message(http.task_id,
                                      sort_queries_by_runquantity(http.request), 0))
    /\ http' = Answer("/new", http.credentials, http.task_id,
                      [status_code |-> 200, body |-> [taskid |-> http.task_id]])
    /\ UNCHANGED <<analyzer, yandex, tasks, worker>>

\* GET /status
GetStatus ==
    /\ http.phase /= "committed"
    /\ \E credentials \in Headers, task_id \in TaskIds :
          /\ require_basic_auth(credentials)
          /\ http' = Answer("/status", credentials, task_id, get_status(tasks, task_id))
    /\ UNCHANGED <<analyzer, yandex, tasks, queue, worker>>

\* GET /getresult
GetResult ==
    /\ http.phase /= "committed"
    /\ \E credentials \in Headers, task_id \in TaskIds :
          /\ require_basic_auth(credentials)
          /\ http' = Answer("/getresult", credentials, task_id, get_result(tasks, task_id))
    /\ UNCHANGED <<analyzer, yandex, tasks, queue, worker>>

max_retries == 3

\* process_task leaving the stored error as it is when it marks the task
\* RUNNING
ProcessStart_KeepsError ==
    /\ worker = NoExecution
    /\ queue /= <<>>
    /\ queue' = Tail(queue)
    /\ IF Head(queue).task_id \notin DOMAIN tasks
       THEN UNCHANGED <<tasks, worker>>
       ELSE /\ tasks' = [tasks EXCEPT ![Head(queue).task_id].status = "RUNNING"]
            /\ worker' = [pc |-> "work", message |-> Head(queue)]
    /\ UNCHANGED <<analyzer, yandex, http>>

\* process_task up to _do_work: the message is taken, a task that is not
\* stored ends the execution, a stored one is marked RUNNING
ProcessStart ==
    /\ worker = NoExecution
    /\ queue /= <<>>
    /\ queue' = Tail(queue)
    /\ IF Head(queue).task_id \notin DOMAIN tasks
       THEN UNCHANGED <<tasks, worker>>
       ELSE /\ tasks' = [tasks EXCEPT ![Head(queue).task_id].status = "RUNNING",
                                      ![Head(queue).task_id].error = ""]
            /\ worker' = [pc |-> "work", message |-> Head(queue)]
    /\ UNCHANGED <<analyzer, yandex, http>>

\* _do_work returns: the task is marked COMPLETE with the result
ProcessComplete ==
    /\ worker.pc = "work"
    /\ tasks' = [tasks EXCEPT ![worker.message.task_id] =
                    [status |-> "COMPLETE", error |-> "", result |-> "result"]]
    /\ worker' = NoExecution
    /\ UNCHANGED <<analyzer, yandex, queue, http>>

\* _do_work hits the time limit: the task is marked FAILED, no retry
ProcessTimeLimit ==
    /\ worker.pc = "work"
    /\ tasks' = [tasks EXCEPT ![worker.message.task_id].status = "FAILED",
                              ![worker.message.task_id].error = "Timeout exceeded"]
    /\ worker' = NoExecution
    /\ UNCHANGED <<analyzer, yandex, queue, http>>

\* _do_work raises: the task is marked FAILED and the exception goes on to
\* Celery, which retries the message while retries remain (autoretry_for)
ProcessRaise ==
    /\ worker.pc = "work"
    /\ tasks' = [tasks EXCEPT ![worker.message.task_id].status = "FAILED",
                              ![worker.message.task_id].error = "Exception: e"]
    /\ queue' = IF worker.message.retries < max_retries
                THEN Append(queue, [worker.message EXCEPT !.retries = @ + 1])
                ELSE queue
    /\ worker' = NoExecution
    /\ UNCHANGED <<analyzer, yandex, http>>

\* the hard time limit (task_time_limit) passes while _do_work runs: the
\* pool terminates the process that executes the task, so no statement of
\* process_task runs any more, and the message is acknowledged
ProcessHardTimeLimit ==
    /\ worker.pc = "work"
    /\ worker' = NoExecution
    /\ UNCHANGED <<analyzer, yandex, tasks, queue, http>>

\* how often the broker delivers one message again
MaxRedeliveries == 1

\* the worker is lost while _do_work runs: with task_acks_late the message
\* is not acknowledged yet, and the broker delivers it again
WorkerLost ==
    /\ worker.pc = "work"
    /\ worker.message.redelivered < MaxRedeliveries
    /\ queue' = Append(queue, [worker.message EXCEPT !.redelivered = @ + 1])
    /\ worker' = NoExecution
    /\ UNCHANGED <<analyzer, yandex, tasks, http>>

ServiceInit ==
    /\ ddl = <<>> /\ queries = <<>>
    /\ pc = "idle"
    /\ raised = ""
    /\ ddl_list = <<>> /\ q_list = <<>>
    /\ default_catalog = "" /\ default_schema = ""
    /\ short2fqtn_counter = EmptyDict /\ short2fqtn = EmptyDict
    /\ ddl_tables = <<>>
    /\ qi = 0
    /\ table_scan_freq = EmptyDict /\ table_scan_query_freq = EmptyDict
    /\ column_usage_freq = EmptyDict
    /\ join_edge_weight = EmptyDict /\ join_key_freq = EmptyDict
    /\ groupby_patterns = <<>> /\ window_functions = EmptyDict
    /\ context = <<>>
    /\ ServiceAtRest

ServiceNext ==
    \/ Refuse
    \/ Invalid
    \/ StartTaskCommit
    \/ StartTaskDelay
    \/ GetStatus
    \/ GetResult
    \/ ProcessStart
    \/ ProcessComplete
    \/ ProcessTimeLimit
    \/ ProcessRaise

ServiceSpec == ServiceInit /\ [][ServiceNext]_vars

\* ------------------------------------------------------------- the worker alone
\* The worker on the messages of up to MaxTasks tasks that POST /new has
\* stored and enqueued, each with an empty list of queries.  The worker
\* goes on taking messages, and every execution it starts ends: _do_work
\* returns or raises, a time limit passes, or the worker is lost.  The hard
\* time limit and the loss of the worker leave the tasks table as it is;
\* ServiceSpec, which is about the routes and the rows, does without them.
WorkerInit ==
    /\ ddl = <<>> /\ queries = <<>>
    /\ pc = "idle"
    /\ raised = ""
    /\ ddl_list = <<>> /\ q_list = <<>>
    /\ default_catalog = "" /\ default_schema = ""
    /\ short2fqtn_counter = EmptyDict /\ short2fqtn = EmptyDict
    /\ ddl_tables = <<>>
    /\ qi = 0
    /\ table_scan_freq = EmptyDict /\ table_scan_query_freq = EmptyDict
    /\ column_usage_freq = EmptyDict
    /\ join_edge_weight = EmptyDict /\ join_key_freq = EmptyDict
    /\ groupby_patterns = <<>> /\ window_functions = EmptyDict
    /\ context = <<>>
    /\ \E n \in 1..MaxTasks :
          /\ tasks = [t \in {Uuids[i] : i \in 1..n} |-> NewTask]
          /\ queue = [i \in 1..n |->
                         Message(Uuids[i], sort_queries_by_runquantity([queries |-> <<>>]), 0)]
          /\ http = Answer("/new", [given |-> TRUE, username |-> cfg.username,
                                    password |-> cfg.password], Uuids[n],
                           [status_code |-> 200, body |-> [taskid |-> Uuids[n]]])
    /\ worker = NoExecution
    /\ yandex = NoCall

ExecutionEnds ==
    \/ ProcessComplete
    \/ ProcessTimeLimit
    \/ ProcessRaise
    \/ ProcessHardTimeLimit
    \/ WorkerLost

WorkerNext ==
    \/ ProcessStart
    \/ ExecutionEnds

WorkerSpec ==
    WorkerInit /\ [][WorkerNext]_vars /\ WF_vars(ProcessStart) /\ WF_vars(ExecutionEnds)

\* ------------------------------------------------------------- one request, sorted and analysed
\* The two places that order queries by runquantity, on the same queries:
\* start_task, which sorts the request it enqueues, and build_context_pack,
\* which keeps the top queries.  The request is as long as MaxItems, or one
\* longer than the cut of top_queries_by_q.
ManyQ == TopN + 1

SortInit ==
    /\ \E n \in (0..MaxItems) \cup {ManyQ} : \E ws \in [1..n -> 1..MaxW] :
          /\ queries = [i \in 1..n |-> RawQuery(QueryIds[i], SelectOne, RawInt(ws[i]))]
          /\ http = [phase |-> "committed", route |-> "/new",
                     credentials |-> [given |-> TRUE, username |-> cfg.username,
                                      password |-> cfg.password],
                     task_id |-> Uuids[1],
                     request |-> [queries |-> [i \in 1..n |->
                                     [queryid |-> QueryIds[i], runquantity |-> ws[i]]]]]
    /\ tasks = (Uuids[1] :> NewTask)
    /\ queue = <<>>
    /\ worker = NoExecution
    /\ yandex = NoCall
    /\ ddl = <<>>
    /\ pc = "ingest"
    /\ raised = ""
    /\ ddl_list = <<>> /\ q_list = <<>>
    /\ default_catalog = "" /\ default_schema = ""
    /\ short2fqtn_counter = EmptyDict /\ short2fqtn = EmptyDict
    /\ ddl_tables = <<>>
    /\ qi = 0
    /\ table_scan_freq = EmptyDict /\ table_scan_query_freq = EmptyDict
    /\ column_usage_freq = EmptyDict
    /\ join_edge_weight = EmptyDict /\ join_key_freq = EmptyDict
    /\ groupby_patterns = <<>> /\ window_functions = EmptyDict
    /\ context = <<>>

SortNext ==
    \/ StartTaskDelay
    \/ Ingest
    \/ ExtractDefaults
    \/ BuildShortNames
    \/ CollectDdlTables
    \/ WalkParsed
    \/ Assemble

SortSpec == SortInit /\ [][SortNext]_vars

\* ------------------------------------------------------------- the join workload
\* build_context_pack on the first n joins of the join workload, n up to
\* MaxJoins, each with weight 1 or MaxW, and no DDL
MaxJoins == 7

CliqueInit ==
    /\ \E n \in {m \in 0..MaxJoins : m <= Len(JoinTexts)} : \E ws \in [1..n -> {1, MaxW}] :
          queries = [i \in 1..n |-> RawQuery(QueryIds[i], JoinTexts[i], RawInt(ws[i]))]
    /\ ddl = <<>>
    /\ pc = "ingest"
    /\ raised = ""
    /\ ddl_list = <<>> /\ q_list = <<>>
    /\ default_catalog = "" /\ default_schema = ""
    /\ short2fqtn_counter = EmptyDict /\ short2fqtn = EmptyDict
    /\ ddl_tables = <<>>
    /\ qi = 0
    /\ table_scan_freq = EmptyDict /\ table_scan_query_freq = EmptyDict
    /\ column_usage_freq = EmptyDict
    /\ join_edge_weight = EmptyDict /\ join_key_freq = EmptyDict
    /\ groupby_patterns = <<>> /\ window_functions = EmptyDict
    /\ context = <<>>
    /\ ServiceAtRest

CliqueNext ==
    \/ Ingest
    \/ ExtractDefaults
    \/ BuildShortNames
    \/ CollectDdlTables
    \/ WalkParsed
    \/ Assemble

CliqueSpec == CliqueInit /\ [][CliqueNext]_vars

\* ------------------------------------------------------------- call_yandex
\* call_yandex with the default requirements (lines 460-464)
req == [catalog |-> "quests", source_schema |-> "public", target_schema |-> "new_schema"]

\* the SQL texts of the replies, with the catalog.schema prefixes each holds
SqlNew == "SELECT id FROM quests.new_schema.t1"
SqlOld == "SELECT id FROM quests.public.t1"
SqlStar == "SELECT * FROM quests.new_schema.t1"
SqlMonth == "SELECT id FROM quests.new_schema.t1 WHERE month(d) = 1"
CreateSchema == "CREATE SCHEMA quests.new_schema"
Ctas == "CREATE TABLE quests.new_schema.t1 AS SELECT id FROM quests.public.t1"

Prefixes(sql) ==
    CASE sql \in {SqlNew, SqlStar, SqlMonth} -> {<<"quests", "new_schema">>}
      [] sql = SqlOld -> {<<"quests", "public">>}
      [] sql = Ctas -> {<<"quests", "new_schema">>, <<"quests", "public">>}
      [] OTHER -> {}

\* d.get(key) or ""
GetText(d, key) == IF key \in DOMAIN d THEN d[key] ELSE ""

\* SELECT * FROM a name that is no CTE, with no LIMIT n after it
_has_harmful_select_star(sql) == sql = SqlStar

\* month( or date_trunc( inside a WHERE clause
_has_func_on_partition_in_where(sql) == sql = SqlMonth

_uses_wrong_schema(sql, catalog, source_schema) == <<catalog, source_schema>> \in Prefixes(sql)

_all_queries_use_target_schema(qs, catalog, target_schema) ==
    \A i \in 1..Len(qs) : <<catalog, target_schema>> \in Prefixes(GetText(qs[i], "query"))

\* the statement, upper-cased, starts with CREATE SCHEMA and names the
\* target schema
_first_ddl_is_create_schema(ddl_, catalog, target_schema) ==
    /\ ddl_ /= <<>>
    /\ GetText(ddl_[1], "statement") = CreateSchema
    /\ <<catalog, target_schema>> = <<"quests", "new_schema">>

\* the issues of one query: << queryid, what is wrong >>
QueryIssues(q, catalog, source_schema) ==
    LET sql == GetText(q, "query")
        qid == IF "queryid" \in DOMAIN q THEN q["queryid"] ELSE "<noid>"
    IN  (IF _has_harmful_select_star(sql)
         THEN <<<<qid, "SELECT * not allowed from physical tables">>>> ELSE <<>>)
        \o (IF _has_func_on_partition_in_where(sql)
            THEN <<<<qid, "month()/date_trunc() used inside WHERE">>>> ELSE <<>>)
        \o (IF _uses_wrong_schema(sql, catalog, source_schema)
            THEN <<<<qid, "query references the source schema">>>> ELSE <<>>)

\* validate_result: the list of issues, each << queryid or "", text >>.
\* A JSON object is a function of its keys; under the keys ddl, migrations
\* and queries a value is [t |-> "list", v |-> the items] or of another type.
validate_result(obj, catalog, source_schema, target_schema) ==
    IF ~({"ddl", "migrations", "queries"} \subseteq DOMAIN obj)
    THEN <<<<"", "missing keys (ddl/migrations/queries)">>>>
    ELSE LET ddl_ == obj["ddl"].v
             mig == obj["migrations"].v
             qs == obj["queries"].v
         IN  (IF qs = <<>> THEN <<<<"", "queries must be non-empty">>>> ELSE <<>>)
             \o (IF ~_first_ddl_is_create_schema(ddl_, catalog, target_schema)
                 THEN <<<<"", "first DDL must be CREATE SCHEMA">>>> ELSE <<>>)
             \o (IF mig = <<>> THEN <<<<"", "migrations must be non-empty">>>> ELSE <<>>)
             \o (IF qs /= <<>> /\ ~_all_queries_use_target_schema(qs, catalog, target_schema)
                 THEN <<<<"", "all queries must reference only the target schema">>>> ELSE <<>>)
             \o Flatten([i \in 1..Len(qs) |-> QueryIssues(qs[i], catalog, source_schema)])

\* the contents a reply of the model can have
TextProse == "Here is the new schema."
TextValid ==
    "{\"ddl\": [CREATE SCHEMA], \"migrations\": [CTAS], \"queries\": [{\"queryid\": \"q1\", \"query\": new}]}"
TextStatement ==
    "{\"ddl\": [CREATE SCHEMA], \"migrations\": [CTAS], \"queries\": [{\"queryid\": \"q1\", \"statement\": new}]}"
TextNoMigrations ==
    "{\"ddl\": [CREATE SCHEMA], \"queries\": [{\"queryid\": \"q1\", \"query\": new}]}"
TextDdlString ==
    "{\"ddl\": \"CREATE SCHEMA\", \"migrations\": [CTAS], \"queries\": [{\"queryid\": \"q1\", \"query\": new}]}"
TextOldSchema ==
    "{\"ddl\": [CREATE SCHEMA], \"migrations\": [CTAS], \"queries\": [{\"queryid\": \"q1\", \"query\": old}]}"
TextStar ==
    "{\"ddl\": [CREATE SCHEMA], \"migrations\": [CTAS], \"queries\": [{\"queryid\": \"q1\", \"query\": star}, {\"query\": month}]}"
TextList == "[]"

Replies ==
    {TextProse, TextValid, TextStatement, TextNoMigrations, TextDdlString,
     TextOldSchema, TextStar, TextList}

JList(items) == [t |-> "list", v |-> items]
JStr(s) == [t |-> "str", v |-> s]
Statement(s) == [statement |-> s]
Contract(ddl_, mig, qs) == [ddl |-> ddl_, migrations |-> mig, queries |-> qs]
OneQuery(sql) == JList(<<[queryid |-> "q1", query |-> sql]>>)

\* _parse_json: << [t |-> "dict", v |-> the object] >>, << [t |-> "list"] >>
\* for a JSON array, << >> for None
_parse_json(text) ==
    CASE text = TextValid ->
            <<[t |-> "dict", v |-> Contract(JList(<<Statement(CreateSchema)>>),
                                           JList(<<Statement(Ctas)>>), OneQuery(SqlNew))]>>
      [] text = TextStatement ->
            <<[t |-> "dict", v |-> Contract(JList(<<Statement(CreateSchema)>>),
                                           JList(<<Statement(Ctas)>>),
                                           JList(<<[queryid |-> "q1", statement |-> SqlNew]>>))]>>
      [] text = TextNoMigrations ->
            <<[t |-> "dict", v |-> [ddl |-> JList(<<Statement(CreateSchema)>>),
                                   queries |-> OneQuery(SqlNew)]]>>
      [] text = TextDdlString ->
            <<[t |-> "dict", v |-> Contract(JStr(CreateSchema),
                                           JList(<<Statement(Ctas)>>), OneQuery(SqlNew))]>>
      [] text = TextOldSchema ->
            <<[t |-> "dict", v |-> Contract(JList(<<Statement(CreateSchema)>>),
                                           JList(<<Statement(Ctas)>>), OneQuery(SqlOld))]>>
      [] text = TextStar ->
            <<[t |-> "dict", v |-> Contract(JList(<<Statement(CreateSchema)>>),
                                           JList(<<Statement(Ctas)>>),
                                           JList(<<[queryid |-> "q1", query |-> SqlStar],
                                                   [query |-> SqlMonth]>>))]>>
      [] text = TextList -> <<[t |-> "list"]>>
      [] OTHER -> <<>>

\* lines 511-524: the three keys hold lists, and the statement of a query
\* item becomes its query
FixedQuery(item) ==
    IF "query" \notin DOMAIN item /\ "statement" \in DOMAIN item
    THEN [k \in (DOMAIN item \ {"statement"}) \cup {"query"} |->
             IF k = "query" THEN item["statement"] ELSE item[k]]
    ELSE item

Normalised(parsed) ==
    LET lists == [k \in DOMAIN parsed \cup {"ddl", "migrations", "queries"} |->
                     IF k \notin {"ddl", "migrations", "queries"} THEN parsed[k]
                     ELSE IF k \in DOMAIN parsed /\ parsed[k].t = "list" THEN parsed[k]
                     ELSE JList(<<>>)]
    IN  [lists EXCEPT !["queries"] =
            JList([i \in 1..Len(lists["queries"].v) |-> FixedQuery(lists["queries"].v[i])])]

\* the messages of the conversation
SystemMessage == [role |-> "system", content |-> <<<<"", "SYSTEM_PROMPT">>>>]
ContractMessage == [role |-> "user", content |-> <<<<"", "user_text">>>>]
RawJsonMessage == [role |-> "user", content |-> <<<<"", "return the full raw JSON">>>>]
FeedbackMessage(issues) ==
    [role |-> "user",
     content |-> <<<<"", "contract violations:">>>> \o issues \o <<<<"", "fix and return the full JSON">>>>]

\* call_yandex between two requests
Calling(n) ==
    [pc |-> "loop", max_retries |-> n, attempt |-> 0, requests |-> 0,
     messages |-> <<SystemMessage, ContractMessage>>, last_text |-> "",
     result |-> <<>>, raised |-> ""]

\* the for loop is over after this attempt: ValueError (line 555)
AfterFailure(call) ==
    IF call.attempt < call.max_retries
    THEN [call EXCEPT !.attempt = @ + 1]
    ELSE [call EXCEPT !.attempt = @ + 1, !.pc = "raised", !.raised = "ValueError"]

\* one turn of the loop whose request is answered below 400 with a reply of
\* the model (lines 484-548), and what follows the loop if it was the last
Attempt ==
    /\ yandex.pc = "loop"
    /\ \E text \in Replies :
       \E parsed \in {_parse_json(text)}, sent \in {[yandex EXCEPT !.requests = @ + 1,
                                                                  !.last_text = text]} :
          yandex' =
             IF parsed = <<>>
             THEN AfterFailure([sent EXCEPT !.messages = Append(@, RawJsonMessage)])
             ELSE IF parsed[1].t /= "dict"
             THEN [sent EXCEPT !.pc = "raised", !.raised = "TypeError"]
             ELSE IF validate_result(Normalised(parsed[1].v), req.catalog,
                                     req.source_schema, req.target_schema) = <<>>
             THEN [sent EXCEPT !.pc = "returned", !.result = <<Normalised(parsed[1].v)>>]
             ELSE AfterFailure([sent EXCEPT !.messages = Append(@, FeedbackMessage(
                      validate_result(Normalised(parsed[1].v), req.catalog,
                                      req.source_schema, req.target_schema)))])
    /\ UNCHANGED <<analyzer, service>>

\* one turn of the loop whose request is answered with a status of 400 or
\* more: raise_for_status raises (lines 492-500)
AttemptHttpError ==
    /\ yandex.pc = "loop"
    /\ yandex' = [yandex EXCEPT !.requests = @ + 1, !.pc = "raised", !.raised = "HTTPError"]
    /\ UNCHANGED <<analyzer, service>>

MaxRetriesArg == 2

YandexInit ==
    /\ ddl = <<>> /\ queries = <<>>
    /\ pc = "idle"
    /\ raised = ""
    /\ ddl_list = <<>> /\ q_list = <<>>
    /\ default_catalog = "" /\ default_schema = ""
    /\ short2fqtn_counter = EmptyDict /\ short2fqtn = EmptyDict
    /\ ddl_tables = <<>>
    /\ qi = 0
    /\ table_scan_freq = EmptyDict /\ table_scan_query_freq = EmptyDict
    /\ column_usage_freq = EmptyDict
    /\ join_edge_weight = EmptyDict /\ join_key_freq = EmptyDict
    /\ groupby_patterns = <<>> /\ window_functions = EmptyDict
    /\ context = <<>>
    /\ tasks = <<>>
    /\ queue = <<>>
    /\ http = NoRequest
    /\ worker = NoExecution
    /\ \E n \in 0..MaxRetriesArg : yandex = Calling(n)

YandexNext == Attempt \/ AttemptHttpError

YandexSpec == YandexInit /\ [][YandexNext]_vars

\* ------------------------------------------------------------- claims
\* C1: build_context_pack never propagates an exception: for every DDL
\* list and every query list it goes on to return a pack, so no exception
\* ever leaves it.
C1_NeverRaises == raised = ""

\* C2: in every returned pack, table_scan_query_freq[T] <= table_scan_freq[T]
\* for every table T.
C2_WeightConservation ==
    context /= <<>> =>
        \A T \in DOMAIN context[1].table_scan_query_freq.val :
            context[1].table_scan_query_freq.val[T] <= Count(context[1].table_scan_freq, T)

\* the step of the main loop that walks a query which parses
WalksParsed == qi' = qi + 1 /\ parse_one(q_list[qi + 1].query) /= <<>>

\* the step of the main loop that walks a query which does not parse
WalksUnparsable == qi' = qi + 1 /\ parse_one(q_list[qi + 1].query) = <<>>

\* the value a counter gains in a step
Gain(before, after, key) == Count(after, key) - Count(before, key)

\* C3: after any sequence of queries, every entry [A, B, w] of
\* join_graph_edges has A < B lexicographically (hence no self-loop), and no
\* unordered pair of tables appears in two entries.
C3_CanonicalEdges ==
    LET es == JoinGraphEdges(join_edge_weight)
    IN  /\ \A i \in 1..Len(es) : NameLess(es[i][1], es[i][2])
        /\ \A i, j \in 1..Len(es) :
              i /= j => {es[i][1], es[i][2]} /= {es[j][1], es[j][2]}

\* one pair of tables joined in both written orders by two queries, and
\* returned as one edge
C3_Witness ==
    /\ context /= <<>>
    /\ Len(q_list) = 2
    /\ q_list[1].query = QTwoAlias /\ q_list[2].query = QJoinReversed
    /\ Len(context[1].join_graph_edges) = 1
    /\ context[1].join_graph_edges[1][3] = q_list[1].runquantity + q_list[2].runquantity

\* the Table nodes a block reads directly in its FROM and JOINs
BlockTables(sel) ==
    SelectSeq((IF sel.from = <<>> THEN <<>> ELSE <<sel.from[1].this>>)
              \o [j \in 1..Len(sel.joins) |-> sel.joins[j].this],
              LAMBDA n : n.k = "Table")

\* the written name of a Table node
WrittenName(tbl) == NonEmpty(<<tbl.catalog, tbl.db, tbl.name>>)

\* a block that joins two distinct tables, both written with their schema
JoinsTwoPhysical(sel) ==
    /\ Len(sel.joins) = 1
    /\ Len(BlockTables(sel)) = 2
    /\ \A i \in 1..2 : BlockTables(sel)[i].db /= ""
    /\ WrittenName(BlockTables(sel)[1]) /= WrittenName(BlockTables(sel)[2])

\* the column names a block uses, and never with a qualifier
NeverQualified(sel) ==
    {c.name : c \in {x \in Range(OwnColumns(sel)) : x.table = "" /\ x.name /= ""}}
    \ {c.name : c \in {x \in Range(OwnColumns(sel)) : x.table /= ""}}

\* C4: when a walked query is one SELECT block that joins two distinct
\* physical tables, every column name the block uses only without a
\* qualifier is credited to the "__unknown__" key of that name, and no
\* physical table's key of that name gains anything, whatever aliases the
\* two tables carry.
C4_AmbiguityFallback ==
    [][WalksParsed =>
        LET sels == find_all(parse_one(q_list[qi + 1].query)[1], {"Select"})
        IN  (Len(sels) = 1 /\ JoinsTwoPhysical(sels[1])) =>
                \A c \in NeverQualified(sels[1]) :
                    /\ Gain(column_usage_freq, column_usage_freq', <<Unknown, c>>)
                          = q_list[qi + 1].runquantity
                    /\ \A key \in DOMAIN column_usage_freq'.val :
                          (key[2] = c /\ key[1] /= Unknown)
                              => Gain(column_usage_freq, column_usage_freq', key) = 0]_vars

\* how many elements of a sequence satisfy a test
HowMany(xs, Test(_)) == Len(SelectSeq(xs, Test))

\* the Table nodes of a tree that name `name` bare, and those written as T
BareRefs(tree, name) ==
    SelectSeq(find_all(tree, {"Table"}),
              LAMBDA t : t.name = name /\ t.db = "" /\ t.catalog = "")
WrittenAs(tree, T) ==
    SelectSeq(find_all(tree, {"Table"}), LAMBDA t : t.db /= "" /\ WrittenName(t) = T)

\* a CTE whose block reads one table written with its schema
OverPhysical(cte) ==
    /\ cte.this.k = "Select"
    /\ cte.this.joins = <<>>
    /\ Len(BlockTables(cte.this)) = 1
    /\ BlockTables(cte.this)[1].db /= ""

\* C5: when a walked query defines one CTE x over a physical table T and
\* reads x as a table, table_scan_freq[T] gains the query's weight for each
\* reference to x as for each reference to T itself, and no key of
\* table_scan_freq or table_scan_query_freq whose table segment is x gains
\* anything, whatever the DDL list.
C5_CteScansCreditBase ==
    [][WalksParsed =>
        LET tree == parse_one(q_list[qi + 1].query)[1]
            ctes == find_all(tree, {"CTE"})
            w == q_list[qi + 1].runquantity
        IN  (Len(ctes) = 1 /\ OverPhysical(ctes[1])
                 /\ BareRefs(tree, ctes[1].alias) /= <<>>) =>
                LET x == ctes[1].alias
                    T == WrittenName(BlockTables(ctes[1].this)[1])
                IN  /\ Gain(table_scan_freq, table_scan_freq', T)
                          = w * (Len(BareRefs(tree, x)) + Len(WrittenAs(tree, T)))
                    /\ \A key \in DOMAIN table_scan_freq'.val
                                     \cup DOMAIN table_scan_query_freq'.val :
                          key[Len(key)] = x =>
                              /\ Gain(table_scan_freq, table_scan_freq', key) = 0
                              /\ Gain(table_scan_query_freq,
                                      table_scan_query_freq', key) = 0]_vars

\* the physical tables at the end of the chain of definitions of a name:
\* the tables its CTE's block reads, each followed through its own CTE
RECURSIVE ChainEnd(_, _)
ChainEnd(tree, name) ==
    LET defs == SelectSeq(find_all(tree, {"CTE"}), LAMBDA c : c.alias = name)
        reads == IF defs = <<>> THEN <<>> ELSE BlockTables(defs[1].this)
    IN  UNION {IF reads[i].db /= "" THEN {WrittenName(reads[i])}
               ELSE ChainEnd(tree, reads[i].name) : i \in 1..Len(reads)}

\* C6: for the query the main loop is about to walk, every CTE name, and
\* every alias given to a CTE, expands to exactly the physical tables at
\* the end of its chain of definitions, however long the chain.
C6_ChainsResolve ==
    (pc = "walk" /\ qi < Len(q_list) /\ parse_one(q_list[qi + 1].query) /= <<>>) =>
        LET tree == parse_one(q_list[qi + 1].query)[1]
            raw == _resolve_alias_maps(tree, default_catalog, default_schema)
            cte_map_phys == PhysMap(raw.cte, raw.alias, raw.cte, short2fqtn)
            alias_map_phys == PhysMap(raw.alias, raw.alias, raw.cte, short2fqtn)
            ctes == find_all(tree, {"CTE"})
            tbls == find_all(tree, {"Table"})
        IN  /\ \A i \in 1..Len(ctes) :
                  Range(GetOr(cte_map_phys, ctes[i].alias)) = ChainEnd(tree, ctes[i].alias)
            /\ \A i \in 1..Len(tbls) :
                  (tbls[i].alias /= "" /\ ChainEnd(tree, tbls[i].name) /= {}) =>
                      Range(GetOr(alias_map_phys, tbls[i].alias))
                          = ChainEnd(tree, tbls[i].name)

\* the table a qualifier names in a block: the table of the block's FROM
\* and JOINs that carries it as alias or, unaliased, as table name
Resolve(sel, qualifier) ==
    LET hits == SelectSeq(BlockTables(sel),
                    LAMBDA t : /\ t.db /= ""
                               /\ \/ t.alias = qualifier
                                  \/ t.alias = "" /\ t.name = qualifier)
    IN  IF hits = <<>> THEN <<>> ELSE WrittenName(hits[1])

\* the join keys a tree's ON-conditions call for, one per equality between
\* two qualified columns of two distinct physical tables: tables sorted,
\* each column (lower-cased) on its table's side
KeyCalledFor(sel, eq) ==
    LET L == Resolve(sel, eq.this.table)
        R == Resolve(sel, eq.expression.table)
        cl == Lower(eq.this.name)
        cr == Lower(eq.expression.name)
    IN  IF L = <<>> \/ R = <<>> \/ L = R THEN <<>>
        ELSE IF NameLess(L, R) THEN << <<L, R, cl, cr>> >> ELSE << <<R, L, cr, cl>> >>

KeysCalledFor(tree) ==
    LET sels == find_all(tree, {"Select"})
        ofJoin(sel, j) ==
            LET eqs == SelectSeq(j.on, LAMBDA e : /\ e.k = "EQ"
                                                  /\ e.this.k = "Column"
                                                  /\ e.expression.k = "Column"
                                                  /\ e.this.table /= ""
                                                  /\ e.expression.table /= "")
            IN  Flatten([e \in 1..Len(eqs) |-> KeyCalledFor(sel, eqs[e])])
    IN  Flatten([i \in 1..Len(sels) |->
            Flatten([j \in 1..Len(sels[i].joins) |-> ofJoin(sels[i], sels[i].joins[j])])])

\* C7: a walked query of weight w adds, for each ON-equality l.cl = r.cr
\* whose qualifiers name distinct physical tables L and R, w to the join
\* edge (min(L,R), max(L,R)) and w to the join key of the sorted tables with
\* each column on its own table's side, in whichever order the two sides
\* were written.
C7_JoinKeyPerEquality ==
    [][WalksParsed =>
        LET keys == KeysCalledFor(parse_one(q_list[qi + 1].query)[1])
            w == q_list[qi + 1].runquantity
        IN  \A i \in 1..Len(keys) :
                /\ Gain(join_key_freq, join_key_freq', keys[i])
                      = w * HowMany(keys, LAMBDA k : k = keys[i])
                /\ Gain(join_edge_weight, join_edge_weight', <<keys[i][1], keys[i][2]>>)
                      = w * HowMany(keys, LAMBDA k : k[1] = keys[i][1] /\ k[2] = keys[i][2])]_vars

\* the places of a text where the keyword FROM, in either case, is
\* followed by the physical name T
FromHits(text, T) ==
    {i \in 1..(Len(Words(text)) - 1) :
        /\ Words(text)[i].w \in {"FROM", "from"}
        /\ Words(text)[i + 1].n = T
        /\ Len(T) \in {2, 3}}

\* the dotted names a text holds
NamesIn(text) == {Words(text)[i].n : i \in 1..Len(Words(text))} \ {<<>>}

\* C8: walking a query that does not parse leaves build_context_pack in its
\* main loop with no exception; it adds the weight to table_scan_freq once
\* per `FROM <physical-name>` match and to table_scan_query_freq once per
\* distinct matched table, leaves column_usage_freq, the join edges,
\* join_key_freq, groupby_patterns and window_functions unchanged, and the
\* pack is returned only after every query of the list has been walked.
C8_ParseFailureFallback ==
    /\ [][WalksUnparsable =>
            LET text == q_list[qi + 1].query
                w == q_list[qi + 1].runquantity
            IN  /\ \A T \in NamesIn(text) \cup DOMAIN table_scan_freq'.val
                                           \cup DOMAIN table_scan_query_freq'.val :
                      /\ Gain(table_scan_freq, table_scan_freq', T)
                            = w * Cardinality(FromHits(text, T))
                      /\ Gain(table_scan_query_freq, table_scan_query_freq', T)
                            = (IF FromHits(text, T) /= {} THEN w ELSE 0)
                /\ UNCHANGED <<column_usage_freq, join_edge_weight, join_key_freq,
                               groupby_patterns, window_functions>>
                /\ pc' = "walk" /\ raised' = ""]_vars
    /\ [](context /= <<>> => qi = Len(q_list))

\* an unparsable query credited its table twice in one counter and once in
\* the other, and the query after it analysed
C8_Witness ==
    /\ qi = 2
    /\ q_list[1].query = QBroken /\ q_list[2].query = QScan
    /\ q_list[1].runquantity = 2 /\ q_list[2].runquantity = 2
    /\ Count(table_scan_freq, Orphan) = 4
    /\ Count(table_scan_query_freq, Orphan) = 2
    /\ Count(column_usage_freq, <<T1, "id">>) = 2

\* a DDL text that parses as a CREATE TABLE, and the name it creates
IsCreateTable(text) ==
    /\ parse_one(text) /= <<>>
    /\ parse_one(text)[1].k = "Create"
    /\ parse_one(text)[1].kind = "TABLE"
CreatedName(text) ==
    LET this == parse_one(text)[1].this
    IN  WrittenName(IF this.k = "Schema" THEN this.this ELSE this)

\* the CREATE TABLE statements of the DDL list, in order
CreateTables == SelectSeq(ddl_list, LAMBDA d : IsCreateTable(d.statement))

\* the catalog and schema segments of a created name, "" when absent
CatalogOf(name) == IF Len(name) = 3 THEN name[1] ELSE ""
SchemaOf(name) == IF Len(name) >= 2 THEN name[Len(name) - 1] ELSE ""

\* C9: once the defaults are extracted, default_catalog and default_schema
\* are the catalog and schema segments of the table name of the first DDL
\* statement that parses as a CREATE TABLE, and absent when there is none;
\* and a DDL list with no CREATE TABLE leaves ddl_tables and, with no
\* queries, the short-name index empty.
C9_DefaultsFromFirstCreateTable ==
    /\ pc \notin {"ingest", "defaults"} =>
          IF CreateTables = <<>>
          THEN default_catalog = "" /\ default_schema = ""
          ELSE /\ default_catalog = CatalogOf(CreatedName(CreateTables[1].statement))
               /\ default_schema = SchemaOf(CreatedName(CreateTables[1].statement))
    /\ (pc \in {"walk", "done"} /\ CreateTables = <<>>) =>
          /\ ddl_tables = <<>>
          /\ q_list = <<>> => short2fqtn_counter = EmptyDict

\* C10: ddl_tables holds, in DDL order, one triple for every DDL statement
\* that parses as a CREATE TABLE, a missing catalog or schema filled from
\* the defaults; and with no queries, the short-name index holds for each
\* created name one vote per statement creating it.
C10_DdlTablesPerCreateTable ==
    pc \in {"walk", "done"} =>
        /\ ddl_tables =
              [i \in 1..Len(CreateTables) |->
                  LET name == CreatedName(CreateTables[i].statement)
                  IN  [catalog |-> IF CatalogOf(name) /= "" THEN CatalogOf(name)
                                   ELSE default_catalog,
                       schema |-> IF SchemaOf(name) /= "" THEN SchemaOf(name)
                                  ELSE default_schema,
                       table |-> name[Len(name)]]]
        /\ q_list = <<>> =>
              \A i \in 1..Len(CreateTables) :
                  LET name == CreatedName(CreateTables[i].statement)
                  IN  /\ Has(short2fqtn_counter, name[Len(name)])
                      /\ Count(short2fqtn_counter.val[name[Len(name)]], name)
                            = HowMany(CreateTables,
                                      LAMBDA d : CreatedName(d.statement) = name)

\* a raw record with an identifier, and the identifiers it carries
Identifiers(q) == Range(NonEmpty(<<q.queryid, q.queryId, q.id, q.qid>>))
HasIdentifier(q) == q.dict /\ Identifiers(q) /= {}

\* the weights a raw record gives, under whichever key
WeightsGiven(q) ==
    SelectSeq(<<q.runquantity, q.runQuantity, q.run_count>>, LAMBDA rq : rq /= RawNone)

\* C11: ingestion keeps exactly the records that have an identifier, in
\* order; it keeps a non-negative integer weight unchanged (0 included) and
\* substitutes 1 when the weight is absent, not an integer, or negative; it
\* substitutes "SELECT 1" for a missing or blank text and keeps any other
\* text.
C11_Ingestion ==
    pc /= "ingest" =>
        LET kept == SelectSeq(queries, HasIdentifier)
        IN  /\ Len(q_list) = Len(kept)
            /\ \A i \in 1..Len(kept) :
                  /\ q_list[i].queryid \in Identifiers(kept[i])
                  /\ q_list[i].query =
                        (IF kept[i].query \in {"", Blank} THEN "SELECT 1" ELSE kept[i].query)
                  /\ WeightsGiven(kept[i]) = <<>> => q_list[i].runquantity = 1
                  /\ Len(WeightsGiven(kept[i])) = 1 =>
                        LET rq == WeightsGiven(kept[i])[1]
                        IN  q_list[i].runquantity =
                               (IF rq.t = "int" /\ rq.v >= 0 THEN rq.v ELSE 1)

\* every value of a dict is a non-negative integer
NonNegative(d) == \A key \in DOMAIN d.val : d.val[key] >= 0

\* C12: in every returned pack every counter is a non-negative integer:
\* the values of table_scan_freq, table_scan_query_freq, column_usage_freq,
\* join_key_freq and window_functions, the weight of every join_graph_edges
\* entry, total_runquantity, and the runquantity of every top_queries_by_q
\* and groupby_patterns entry.
C12_CountersNonNegative ==
    context /= <<>> =>
        LET pack == context[1]
        IN  /\ NonNegative(pack.table_scan_freq)
            /\ NonNegative(pack.table_scan_query_freq)
            /\ NonNegative(pack.column_usage_freq)
            /\ NonNegative(pack.join_key_freq)
            /\ NonNegative(pack.window_functions)
            /\ \A i \in 1..Len(pack.join_graph_edges) : pack.join_graph_edges[i][3] >= 0
            /\ pack.queries_overview.total_runquantity >= 0
            /\ \A i \in 1..Len(pack.top_queries_by_q) : pack.top_queries_by_q[i].runquantity >= 0
            /\ \A i \in 1..Len(pack.groupby_patterns) : pack.groupby_patterns[i].runquantity >= 0

\* the weights of the first n ingested records, added up
RECURSIVE WeightOfFirst(_)
WeightOfFirst(n) == IF n = 0 THEN 0 ELSE q_list[n].runquantity + WeightOfFirst(n - 1)

\* C13: queries_overview.total_queries is the number of ingested query
\* records (every record that has an identifier, whether or not its SQL
\* parses) and queries_overview.total_runquantity is the sum of their
\* ingested run weights; with an empty DDL list and an empty query list the
\* pack has absent defaults, empty lists and maps, and queries_overview {0, 0}.
C13_Overview ==
    context /= <<>> =>
        LET pack == context[1]
        IN  /\ pack.queries_overview.total_queries = Len(SelectSeq(queries, HasIdentifier))
            /\ pack.queries_overview.total_runquantity = WeightOfFirst(Len(q_list))
            /\ (ddl = <<>> /\ queries = <<>>) =>
                  /\ pack.default_catalog = "" /\ pack.default_schema = ""
                  /\ pack.queries_overview = [total_queries |-> 0, total_runquantity |-> 0]
                  /\ pack.ddl_tables = <<>> /\ pack.join_graph_edges = <<>>
                  /\ pack.groupby_patterns = <<>> /\ pack.top_queries_by_q = <<>>
                  /\ pack.hot_join_cliques = <<>>
                  /\ \A d \in {pack.join_key_freq, pack.table_scan_freq,
                               pack.table_scan_query_freq, pack.column_usage_freq,
                               pack.window_functions, pack.hot_columns_per_table} :
                        d = EmptyDict

\* a pack over two ingested queries, one of which does not parse
C13_Witness ==
    /\ context /= <<>>
    /\ context[1].queries_overview.total_queries = 2
    /\ \E i \in 1..Len(q_list) : parse_one(q_list[i].query) = <<>>
    /\ \E i \in 1..Len(q_list) : parse_one(q_list[i].query) /= <<>>
    /\ context[1].queries_overview.total_runquantity > 2

\* the tables one query adds to table_scan_query_freq
NewScanKeys(before, after) == Range(after.keys) \ Range(before.keys)

\* C14: two invocations of build_context_pack on identical DDL and query
\* lists, in one process or in two worker processes, produce identical
\* output, key order and member order included: every step of an
\* invocation has one outcome only, whatever the iteration order of a set.
\* So the keys a query adds to table_scan_query_freq come in the one order
\* a set of them can be iterated in, and the pack returned is the pack of
\* every list of cliques find_cliques can give.
C14_Deterministic ==
    [][/\ (WalksParsed \/ WalksUnparsable) =>
            \A o \in Orders(NewScanKeys(table_scan_query_freq, table_scan_query_freq')) :
                table_scan_query_freq'.keys = table_scan_query_freq.keys \o o
       /\ (pc = "walk" /\ pc' = "done") =>
            \A cliques \in HotJoinCliques(join_edge_weight) :
                context' = <<ContextPack(cliques)>>]_vars

\* the occurrences the index is built from: the created-table names of the
\* DDL list, then the table nodes of the queries that parse, each as
\* << bare name, FQTN >>
Occurrences ==
    [i \in 1..Len(CreateTables) |->
        LET name == CreatedName(CreateTables[i].statement)
        IN  <<name[Len(name)], name>>]
      \o QueryVotes(q_list, default_catalog, default_schema)

\* how often an FQTN occurs under a bare name, and where it is first seen
TimesSeen(occ) == HowMany(Occurrences, LAMBDA o : o = occ)
FirstSeen(occ) == CHOOSE i \in 1..Len(Occurrences) :
                      Occurrences[i] = occ /\ \A j \in 1..(i - 1) : Occurrences[j] /= occ

\* C15: for every bare table name the short-name index maps it to the FQTN
\* with the highest number of occurrences under that bare name over all DDL
\* created-table names followed by all table nodes of all parseable
\* queries; among several FQTNs of the highest count, to the one first seen
\* in that DDL-then-query order.
C15_ShortNameVote ==
    pc \in {"ddl_tables", "walk", "done"} =>
        /\ Range(short2fqtn.keys) = {o[1] : o \in Range(Occurrences)}
        /\ \A occ \in Range(Occurrences) :
              short2fqtn.val[occ[1]] = occ[2] <=>
                  \A other \in Range(Occurrences) :
                      (other[1] = occ[1] /\ other /= occ) =>
                          \/ TimesSeen(other) < TimesSeen(occ)
                          \/ /\ TimesSeen(other) = TimesSeen(occ)
                             /\ FirstSeen(occ) < FirstSeen(other)

\* a physical name: 2 or 3 identifier segments
Physical(name) == Len(name) \in {2, 3} /\ \A i \in 1..Len(name) : name[i] \in Idents

\* C16: in every context pack every key of table_scan_freq,
\* table_scan_query_freq and hot_columns_per_table, both endpoints of every
\* join_graph_edges entry, both tables of every join_key_freq key and every
\* member of hot_join_cliques is a physical name, and every
\* column_usage_freq key is "<physical name>.<col>" or "__unknown__.<col>".
C16_PhysicalKeys ==
    context /= <<>> =>
        LET pack == context[1]
        IN  /\ \A name \in Range(pack.table_scan_freq.keys) : Physical(name)
            /\ \A name \in Range(pack.table_scan_query_freq.keys) : Physical(name)
            /\ \A name \in Range(pack.hot_columns_per_table.keys) : Physical(name)
            /\ \A e \in Range(pack.join_graph_edges) : Physical(e[1]) /\ Physical(e[2])
            /\ \A key \in Range(pack.join_key_freq.keys) : Physical(key[1]) /\ Physical(key[2])
            /\ \A clique \in Range(pack.hot_join_cliques) :
                  \A name \in Range(clique) : Physical(name)
            /\ \A key \in Range(pack.column_usage_freq.keys) :
                  (Physical(key[1]) \/ key[1] = <<"__unknown__">>) /\ key[2] \in Idents

\* a step in which the route answers a request that was let in and validated
Answers(route) ==
    /\ http' /= http
    /\ http'.phase = "answered"
    /\ http'.route = route
    /\ http'.status_code /= 401
    /\ http'.task_id \in TaskIds

\* C17: GET /getresult answers 200 with a result only when the stored task
\* has status COMPLETE; it answers 404 "Task not found" when no task has
\* that id, 400 with detail {status} when the status is PENDING or RUNNING,
\* and 400 with detail {status, error} when the status is FAILED; it never
\* changes the task.
C17_GetResult ==
    [][Answers("/getresult") =>
          /\ tasks' = tasks
          /\ http'.status_code = 200 <=>
                /\ http'.task_id \in DOMAIN tasks
                /\ tasks[http'.task_id].status = "COMPLETE"
          /\ http'.status_code = 200 => http'.body = create_mock_response
          /\ http'.task_id \notin DOMAIN tasks =>
                http'.status_code = 404 /\ http'.body = [detail |-> "Task not found"]
          /\ http'.task_id \in DOMAIN tasks =>
                LET task == tasks[http'.task_id]
                IN  /\ task.status \in {"PENDING", "RUNNING"} =>
                          /\ http'.status_code = 400
                          /\ http'.body = [detail |-> [status |-> task.status]]
                    /\ task.status = "FAILED" =>
                          /\ http'.status_code = 400
                          /\ http'.body = [detail |-> [status |-> "FAILED",
                                                       error |-> task.error]]]_vars

\* /getresult has answered 200 for one task while the other is FAILED
C17_Witness ==
    /\ http.phase = "answered"
    /\ http.route = "/getresult"
    /\ http.status_code = 200
    /\ tasks[http.task_id].status = "COMPLETE"
    /\ \E other \in DOMAIN tasks : tasks[other].status = "FAILED"

\* the process_task messages a step puts on the queue for the first time
\* (a retry carries a retry count)
Enqueued ==
    IF Len(queue') > Len(queue) /\ queue'[Len(queue')].retries = 0
    THEN <<queue'[Len(queue')]>> ELSE <<>>

\* C18: POST /new stores a new task with a fresh id and status PENDING and
\* commits it before it enqueues process_task; it enqueues process_task
\* exactly once per request, with the same id that it returns as taskid,
\* so process_task never starts for an id that has no stored task.
C18_StoreThenEnqueue ==
    [][/\ (http.phase /= "committed" /\ http'.phase = "committed") =>
             /\ http'.task_id \notin DOMAIN tasks
             /\ tasks' = tasks @@ (http'.task_id :> [status |-> "PENDING", error |-> "",
                                                    result |-> ""])
             /\ Enqueued = <<>>
       /\ (http.phase = "committed" /\ http'.phase = "answered") =>
             /\ http'.status_code = 200
             /\ http'.body = [taskid |-> http.task_id]
             /\ http.task_id \in DOMAIN tasks /\ tasks' = tasks
             /\ Len(Enqueued) = 1
             /\ Enqueued[1].task_id = http.task_id
             /\ queue' = queue \o Enqueued
       /\ ~(http.phase = "committed" /\ http'.phase = "answered") => Enqueued = <<>>
       /\ (worker.pc = "idle" /\ queue' /= queue /\ queue /= <<>> /\ queue' = Tail(queue)) =>
             /\ Head(queue).task_id \in DOMAIN tasks
             /\ worker'.pc = "work" /\ worker'.message = Head(queue)]_vars

\* process_task is at work on the task POST /new has just answered with
C18_Witness ==
    /\ worker.pc = "work"
    /\ http.phase = "answered" /\ http.route = "/new" /\ http.status_code = 200
    /\ worker.message.task_id = http.body.taskid
    /\ worker.message.retries = 0

\* the credentials the service is configured with
Valid(credentials) ==
    credentials = [given |-> TRUE, username |-> "admin", password |-> "secret"]

\* C19: a request to /new, /status or /getresult without valid Basic
\* credentials is answered 401 and has no effect: no task is created, no
\* task is read or changed, and nothing is enqueued.
C19_Unauthorized ==
    [][(http' /= http /\ ~Valid(http'.credentials)) =>
          /\ http'.phase = "answered"
          /\ http'.route \in Routes
          /\ http'.status_code = 401
          /\ http'.body = [detail |-> "Unauthorized"]
          /\ tasks' = tasks /\ queue' = queue /\ worker' = worker]_vars

\* /new has been answered 401 for a request with the right user name and a
\* wrong password, while a task is stored and a message waits
C19_Witness ==
    /\ http.phase = "answered" /\ http.route = "/new" /\ http.status_code = 401
    /\ http.credentials.given /\ http.credentials.username = "admin"
    /\ DOMAIN tasks /= {}
    /\ queue /= <<>>

\* where the query of an identifier stands in a list
PlaceIn(qs, queryid) == CHOOSE i \in 1..Len(qs) : qs[i].queryid = queryid

\* a goes before b when the list qs is ordered by runquantity,
\* non-increasing, equal weights in their order in qs
GoesBefore(qs, a, b) ==
    \/ a.runquantity > b.runquantity
    \/ a.runquantity = b.runquantity /\ PlaceIn(qs, a.queryid) < PlaceIn(qs, b.queryid)

\* out is the first Len(out) queries of qs in that order
LeadingInOrder(out, qs) ==
    /\ \A i \in 1..Len(out) :
          \E k \in 1..Len(qs) : qs[k].queryid = out[i].queryid
                                    /\ qs[k].runquantity = out[i].runquantity
    /\ \A i, j \in 1..Len(out) : i < j => GoesBefore(qs, out[i], out[j])
    /\ \A k \in 1..Len(qs) :
          (\A i \in 1..Len(out) : out[i].queryid /= qs[k].queryid) =>
              \A i \in 1..Len(out) : GoesBefore(qs, out[i], qs[k])

\* C20: sort_queries_by_runquantity returns the request with the same
\* multiset of queries ordered by runquantity non-increasing, queries of
\* equal runquantity keeping their original relative order; and
\* top_queries_by_q is the first 10 of the ingested queries under that same
\* ordering.
C20_OrderedByRunquantity ==
    [][/\ (http.phase = "committed" /\ http'.phase = "answered") =>
             /\ Len(Enqueued) = 1
             /\ Len(Enqueued[1].payload.queries) = Len(http.request.queries)
             /\ LeadingInOrder(Enqueued[1].payload.queries, http.request.queries)
       /\ (pc = "walk" /\ pc' = "done") =>
             /\ Len(context'[1].top_queries_by_q) =
                   (IF Len(q_list) < 10 THEN Len(q_list) ELSE 10)
             /\ LeadingInOrder(context'[1].top_queries_by_q, q_list)]_vars

\* eleven queries were ingested, the one left out of top_queries_by_q is
\* not the last of them, and the request was enqueued with two queries of
\* equal weight after a lighter one that came first
C20_Witness ==
    /\ pc = "done"
    /\ Len(q_list) = 11
    /\ \E k \in 1..10 : \A i \in 1..Len(context[1].top_queries_by_q) :
          context[1].top_queries_by_q[i].queryid /= q_list[k].queryid
    /\ queue /= <<>>
    /\ queue[1].payload.queries[1].queryid /= "q1"
    /\ \E i, j \in 1..Len(q_list) : i < j /\ q_list[i].runquantity = q_list[j].runquantity

\* the sources a block reads in its own FROM and JOINs
OwnSources(sel) ==
    (IF sel.from = <<>> THEN <<>> ELSE <<sel.from[1].this>>)
    \o [j \in 1..Len(sel.joins) |-> sel.joins[j].this]

\* the physical base tables of a block, by its own FROM/JOIN resolution
OwnBases(sel, alias_map_phys, cte_map_phys, short, dc, ds) ==
    {b \in Range(_expand_to_physical(BasesOfEach(OwnSources(sel), dc, ds),
                                     alias_map_phys, cte_map_phys, short)) : _is_phys(b)}

\* the physical tables a qualified column of a block is credited to
QualifiedTargets(sel, col, alias_map_phys, short) ==
    SelectSeq(QualifiedBases(col, sel_alias_map_phys(sel, alias_map_phys), short), _is_phys)

\* the physical tables under which a column name appears qualified in a block
QualifiedTo(sel, name, alias_map_phys, short) ==
    UNION {Range(QualifiedTargets(sel, c, alias_map_phys, short)) :
              c \in {x \in Range(OwnColumns(sel)) : x.table /= "" /\ x.name = name}}

\* the aliases of a block's own sources
AliasedSources(sel) == {s.alias : s \in Range(OwnSources(sel))} \ {""}

\* rules (a) to (d): the tables an unqualified column of a block goes to
AttributedTo(sel, name, alias_map_phys, cte_map_phys, short, dc, ds) ==
    LET bases == OwnBases(sel, alias_map_phys, cte_map_phys, short, dc, ds)
        seen == QualifiedTo(sel, name, alias_map_phys, short)
        aliased == AliasedSources(sel)
    IN  IF Cardinality(bases) = 1 THEN bases
        ELSE IF Cardinality(seen) = 1 THEN seen
        ELSE IF Cardinality(aliased) = 1
        THEN {t \in Range(GetOr(alias_map_phys, CHOOSE a \in aliased : TRUE)) : _is_phys(t)}
        ELSE {Unknown}

\* the column references of a block that call for a key: a qualified
\* reference for each of its targets, an unqualified one by the rules
CallsFor(sel, key, alias_map_phys, cte_map_phys, short, dc, ds) ==
    SelectSeq(OwnColumns(sel),
            LAMBDA c : /\ c.name = key[2]
                       /\ \/ /\ c.table /= ""
                             /\ key[1] \in Range(QualifiedTargets(sel, c, alias_map_phys, short))
                          \/ /\ c.table = ""
                             /\ key[1] \in AttributedTo(sel, c.name, alias_map_phys,
                                                        cte_map_phys, short, dc, ds))

\* C21: a walked query of weight w adds to every column_usage_freq key
\* exactly w for each column reference that calls for it, block by block:
\* a qualified reference calls for its qualifier's physical tables, an
\* unqualified one for (a) the block's only physical base table, else (b)
\* the only physical table its name appears qualified to in the block, else
\* (c) the physical targets of the block's only aliased source, else (d)
\* "__unknown__"; no other key gains anything.
C21_UnqualifiedAttribution ==
    [][WalksParsed =>
        LET tree == parse_one(q_list[qi + 1].query)[1]
            raw == _resolve_alias_maps(tree, default_catalog, default_schema)
            cte_map_phys == PhysMap(raw.cte, raw.alias, raw.cte, short2fqtn)
            alias_map_phys == PhysMap(raw.alias, raw.alias, raw.cte, short2fqtn)
            sels == find_all(tree, {"Select"})
            names == {c.name : c \in UNION {Range(OwnColumns(sels[i])) : i \in 1..Len(sels)}}
            tables == {key[1] : key \in DOMAIN column_usage_freq'.val} \cup {Unknown}
                        \cup UNION {OwnBases(sels[i], alias_map_phys, cte_map_phys, short2fqtn,
                                             default_catalog, default_schema) : i \in 1..Len(sels)}
        IN  \A t \in tables, n \in names :
                Gain(column_usage_freq, column_usage_freq', <<t, n>>)
                    = q_list[qi + 1].runquantity
                      * Len(Flatten([i \in 1..Len(sels) |->
                            CallsFor(sels[i], <<t, n>>, alias_map_phys, cte_map_phys,
                                     short2fqtn, default_catalog, default_schema)]))]_vars

\* the groupby_patterns entry of one GROUP BY clause
EntryOf(group, q) ==
    LET cols == SelectSeq(group.expressions, LAMBDA e : e.k = "Column" /\ e.name /= "")
    IN  [queryid |-> q.queryid, runquantity |-> q.runquantity,
         columns_raw |-> group.expressions,
         columns_only |-> [i \in 1..Len(cols) |-> cols[i].name]]

\* C22: a walked query appends to groupby_patterns exactly one entry per
\* GROUP BY clause of its tree, wherever the clause sits (top block, CTE or
\* subquery): the entry carries the query's id and weight, every grouping
\* expression of that clause in order as columns_raw, and the bare names of
\* those that are simple column references as columns_only.
C22_OneEntryPerGroupBy ==
    [][WalksParsed =>
        LET q == q_list[qi + 1]
            groups == find_all(parse_one(q.query)[1], {"Group"})
            called == [i \in 1..Len(groups) |-> EntryOf(groups[i], q)]
            added == SubSeq(groupby_patterns', Len(groupby_patterns) + 1,
                            Len(groupby_patterns'))
        IN  /\ Len(added) = Len(groups)
            /\ \A e \in Range(called) \cup Range(added) :
                  HowMany(added, LAMBDA x : x = e) = HowMany(called, LAMBDA x : x = e)]_vars

\* the join graph of a pack: its pairs of tables, and the weight of a pair
PackEdges(pack) == {<<e[1], e[2]>> : e \in Range(pack.join_graph_edges)}
PackWeight(pack, pair) ==
    (CHOOSE e \in Range(pack.join_graph_edges) : <<e[1], e[2]>> = pair)[3]

\* e goes before f among the hottest: heavier, or as heavy and the
\* lexicographically smaller pair
Hotter(pack, e, f) ==
    \/ PackWeight(pack, e) > PackWeight(pack, f)
    \/ PackWeight(pack, e) = PackWeight(pack, f) /\ EdgeLess(e, f)

\* the HotEdgeN hottest edges, their endpoints, and the join graph induced
\* on those endpoints
HottestEdges(pack) ==
    {e \in PackEdges(pack) :
        Cardinality({f \in PackEdges(pack) : Hotter(pack, f, e)}) < HotEdgeN}
HotTables(pack) == UNION {{e[1], e[2]} : e \in HottestEdges(pack)}
IsClique(edges, S) ==
    S /= {} /\ \A a, b \in S : a = b \/ <<a, b>> \in edges \/ <<b, a>> \in edges
MaximalCliquesIn(edges, tables) ==
    {S \in SUBSET tables :
        IsClique(edges, S) /\ \A n \in tables \ S : ~IsClique(edges, S \cup {n})}

\* C23: in every returned pack hot_join_cliques has at most 3 entries (3,
\* or all of them when there are fewer); each entry lists, without
\* repetition, the members of a maximal clique of the join graph induced on
\* the endpoints of the 5 highest-weight edges, equal weights taken in
\* lexicographic order of the table pair; no clique is listed twice; the
\* entries are in non-increasing size; and no maximal clique left out is
\* larger than a listed one.
C23_HotJoinCliques ==
    context /= <<>> =>
        LET pack == context[1]
            cs == pack.hot_join_cliques
            all == MaximalCliquesIn(PackEdges(pack), HotTables(pack))
        IN  /\ Len(cs) <= CliqueN
            /\ Len(cs) = CliqueN \/ Len(cs) = Cardinality(all)
            /\ \A i \in 1..Len(cs) :
                  Range(cs[i]) \in all /\ Len(cs[i]) = Cardinality(Range(cs[i]))
            /\ \A i, j \in 1..Len(cs) : i /= j => Range(cs[i]) /= Range(cs[j])
            /\ \A i \in 1..(Len(cs) - 1) : Len(cs[i]) >= Len(cs[i + 1])
            /\ \A S \in all \ {Range(cs[i]) : i \in 1..Len(cs)} :
                  \A i \in 1..Len(cs) : Cardinality(S) <= Len(cs[i])

\* a pack of more than 5 edges whose coldest edges bring a table that is
\* not among the endpoints of the 5 hottest, with cliques returned
C23_Witness ==
    /\ context /= <<>>
    /\ Len(context[1].join_graph_edges) > HotEdgeN
    /\ \E e \in PackEdges(context[1]) : ~({e[1], e[2]} \subseteq HotTables(context[1]))
    /\ Len(context[1].hot_join_cliques) >= 2

\* the equalities between two columns that a block holds in its own
\* ON-conditions and WHERE, those of nested blocks left out
OwnEqualities(sel) ==
    SelectSeq(BfsOwn(Flatten([j \in 1..Len(sel.joins) |-> sel.joins[j].on]) \o sel.where),
              LAMBDA e : e.k = "EQ" /\ e.this.k = "Column" /\ e.expression.k = "Column")

\* the tables a column of a block resolves to in the join extractor: a
\* qualifier through the aliases of the block's own sources, else through
\* the short-name index; no qualifier, the block's only physical base table
ResolvesTo(sel, col, alias_map_phys, cte_map_phys, short, dc, ds) ==
    IF col.table /= ""
    THEN IF col.table \in AliasedSources(sel) /\ GetOr(alias_map_phys, col.table) /= <<>>
         THEN Range(alias_map_phys.val[col.table])
         ELSE IF Has(short, col.table) THEN {short.val[col.table]} ELSE {}
    ELSE IF Cardinality(OwnBases(sel, alias_map_phys, cte_map_phys, short, dc, ds)) = 1
         THEN OwnBases(sel, alias_map_phys, cte_map_phys, short, dc, ds) ELSE {}

\* the pairs of distinct physical tables the two sides of an equality of a
\* block resolve to
ResolvedPairs(sel, eq, alias_map_phys, cte_map_phys, short, dc, ds) ==
    {p \in ResolvesTo(sel, eq.this, alias_map_phys, cte_map_phys, short, dc, ds)
              \X ResolvesTo(sel, eq.expression, alias_map_phys, cte_map_phys, short, dc, ds) :
        p[1] /= p[2] /\ _is_phys(p[1]) /\ _is_phys(p[2])}

RECURSIVE Sum(_)
Sum(ns) == IF ns = <<>> THEN 0 ELSE Head(ns) + Sum(Tail(ns))

\* how many of the pairs resolved by the equalities of a tree's blocks
\* satisfy a test on the pair and its equality
Emissions(sels, alias_map_phys, cte_map_phys, short, dc, ds, Test(_, _)) ==
    Sum(Flatten([i \in 1..Len(sels) |->
        [j \in 1..Len(OwnEqualities(sels[i])) |->
            Cardinality({p \in ResolvedPairs(sels[i], OwnEqualities(sels[i])[j], alias_map_phys,
                                             cte_map_phys, short, dc, ds) :
                            Test(p, OwnEqualities(sels[i])[j])})]]))

\* C24: a walked query of weight w adds w to a join edge and w to a join
\* key once for every pair of distinct physical tables that the two sides
\* of an equality between two columns resolve to in the equality's block,
\* and nothing else: a qualified column resolves through the aliases of the
\* block's sources, else through the short-name index; an unqualified
\* column resolves to the block's only physical base table, if it has
\* exactly one; an equality with a side that resolves to no table, or with
\* the same table on both sides, adds nothing.
C24_JoinExtractor ==
    [][WalksParsed =>
        LET tree == parse_one(q_list[qi + 1].query)[1]
            w == q_list[qi + 1].runquantity
            raw == _resolve_alias_maps(tree, default_catalog, default_schema)
            cte_map_phys == PhysMap(raw.cte, raw.alias, raw.cte, short2fqtn)
            alias_map_phys == PhysMap(raw.alias, raw.alias, raw.cte, short2fqtn)
            sels == find_all(tree, {"Select"})
            count(Test(_, _)) == Emissions(sels, alias_map_phys, cte_map_phys, short2fqtn,
                                           default_catalog, default_schema, Test)
            tables == UNION {{t[1], t[2]} : t \in DOMAIN join_edge_weight'.val}
                        \cup UNION {OwnBases(sels[i], alias_map_phys, cte_map_phys, short2fqtn,
                                             default_catalog, default_schema) : i \in 1..Len(sels)}
                        \cup UNION {Range(alias_map_phys.val[a]) : a \in DOMAIN alias_map_phys.val}
                        \cup {short2fqtn.val[n] : n \in DOMAIN short2fqtn.val}
            names == {Lower(c.name) : c \in Range(find_all(tree, {"Column"}))}
        IN  /\ \A a \in tables, b \in tables :
                  Gain(join_edge_weight, join_edge_weight', <<a, b>>)
                      = w * count(LAMBDA p, eq : Sorted2(p[1], p[2]) = <<a, b>>)
            /\ \A a \in tables, b \in tables, ca \in names, cb \in names :
                  Gain(join_key_freq, join_key_freq', <<a, b, ca, cb>>)
                      = w * count(LAMBDA p, eq :
                                    OrientPair(p[1], p[2], Lower(eq.this.name),
                                               Lower(eq.expression.name)) = <<a, b, ca, cb>>)]_vars

\* C25: a task whose stored status is COMPLETE or FAILED keeps that status
\* in every later step: no execution of process_task, be it a retry of a
\* run that raised or a message delivered again, sets it back to RUNNING or
\* turns FAILED into COMPLETE.
C25_TerminalStatusFinal ==
    [][\A t \in DOMAIN tasks :
          tasks[t].status \in {"COMPLETE", "FAILED"} => tasks'[t].status = tasks[t].status]_vars

\* C26: every task that process_task has set to RUNNING eventually has the
\* status COMPLETE or FAILED, whichever way the execution ends: _do_work
\* returns, raises, or runs into the soft or the hard time limit.
C26_RunningEnds ==
    \A t \in Range(Uuids) :
        (t \in DOMAIN tasks /\ tasks[t].status = "RUNNING")
            ~> (t \in DOMAIN tasks /\ tasks[t].status \in {"COMPLETE", "FAILED"})

\* C27: in every state of a task record the error is non-empty exactly when
\* the status is FAILED, and the result is set whenever the status is
\* COMPLETE.
C27_ErrorIffFailed ==
    \A t \in DOMAIN tasks :
        /\ tasks[t].error /= "" <=> tasks[t].status = "FAILED"
        /\ tasks[t].status = "COMPLETE" => tasks[t].result /= ""

\* a retry of a run that raised has marked its task RUNNING and cleared the
\* error of the failed run, while another task is COMPLETE with its result
C27_Witness ==
    /\ worker.pc = "work"
    /\ worker.message.retries > 0
    /\ tasks[worker.message.task_id].status = "RUNNING"
    /\ tasks[worker.message.task_id].error = ""
    /\ \E other \in DOMAIN tasks : tasks[other].status = "COMPLETE" /\ tasks[other].result /= ""

\* the sum of join_key_freq over the keys that begin with "a|b|"
KeyWeight(keys, a, b) ==
    Sum([i \in 1..Len(keys.keys) |->
            IF keys.keys[i][1] = a /\ keys.keys[i][2] = b THEN keys.val[keys.keys[i]] ELSE 0])

\* C28: after any sequence of queries, the weight of every join edge (A, B)
\* is the sum of join_key_freq over the keys of the pair (A, B), and
\* join_graph_edges has an edge for a pair exactly when join_key_freq has a
\* key for it.
C28_EdgeWeightIsKeySum ==
    LET es == JoinGraphEdges(join_edge_weight)
        pairs == {<<e[1], e[2]>> : e \in Range(es)}
        keyed == {<<key[1], key[2]>> : key \in Range(join_key_freq.keys)}
    IN  /\ pairs = keyed
        /\ \A e \in Range(es) : e[3] = KeyWeight(join_key_freq, e[1], e[2])

\* two queries have joined one pair of tables on different keys, a third
\* has joined another pair
C28_Witness ==
    /\ pc = "done"
    /\ \E e \in Range(context[1].join_graph_edges) :
          Cardinality({key \in Range(context[1].join_key_freq.keys) :
                          key[1] = e[1] /\ key[2] = e[2]}) >= 2
    /\ Len(context[1].join_graph_edges) >= 2

\* the equalities between two columns anywhere in a tree whose column
\* names, lower-cased, are those of a join key
EqualitiesNamed(tree, ca, cb) ==
    LET eqs == _walk_eq_pairs(tree)
    IN  {i \in 1..Len(eqs) : {Lower(eqs[i][1].name), Lower(eqs[i][2].name)} = {ca, cb}}

\* C29: within one walked query of weight w every equality between two
\* columns adds w to its join edge and to its join key at most once: an
\* equality of a subquery nested in the WHERE or ON of another block counts
\* for its own nearest block only, not once more for the enclosing block.
C29_EqualityCountedOnce ==
    [][WalksParsed =>
        LET tree == parse_one(q_list[qi + 1].query)[1]
            w == q_list[qi + 1].runquantity
        IN  /\ \A key \in Range(join_key_freq'.keys) :
                  \E n \in 0..Cardinality(EqualitiesNamed(tree, key[3], key[4])) :
                      Gain(join_key_freq, join_key_freq', key) = w * n
            /\ \A e \in Range(join_edge_weight'.keys) :
                  \E n \in 0..Len(_walk_eq_pairs(tree)) :
                      Gain(join_edge_weight, join_edge_weight', e) = w * n]_vars

\* C30: a call of call_yandex whose requests are all answered below 400
\* sends at most max_retries + 1 requests; after every attempt that fails
\* parsing or validation the conversation has grown by exactly one
\* corrective user message; an object is returned only if the last reply
\* parsed as JSON and validate_result has no issue for the object; a call
\* that has ended without returning has raised ValueError.
C30_CallYandex ==
    (yandex.pc /= "idle" /\ yandex.raised /= "HTTPError") =>
        /\ yandex.requests <= yandex.max_retries + 1
        /\ Len(yandex.messages) =
              Len(Calling(yandex.max_retries).messages)
                  + (IF yandex.pc = "returned" THEN yandex.requests - 1 ELSE yandex.requests)
        /\ \A i \in 1..Len(yandex.messages) :
              i > Len(Calling(yandex.max_retries).messages) => yandex.messages[i].role = "user"
        /\ yandex.pc = "returned" =>
              /\ _parse_json(yandex.last_text) /= <<>>
              /\ yandex.result = <<Normalised(_parse_json(yandex.last_text)[1].v)>>
              /\ validate_result(yandex.result[1], req.catalog, req.source_schema,
                                 req.target_schema) = <<>>
        /\ yandex.pc = "raised" => yandex.raised = "ValueError"

====
